---- MODULE Spec2Model ----
(***************************************************************************)
(* A model of the scripting layer of OVITO: the copy-on-write ownership of *)
(* data objects held by DataCollections, the ModifierApplication chain     *)
(* behind Pipeline.modifiers, pipeline evaluation and its caches, the      *)
(* guard of long-running operations and the write sections of properties.  *)
(***************************************************************************)
EXTENDS Integers, Sequences, FiniteSets, TLC

(***************************************************************************)
(* Bounds of the model.                                                    *)
(***************************************************************************)
NumObjects == 3
MaxObjectsPerCollection == 2

\* The two data collections A and B that may share objects.
Colls == {1, 2}
ObjIds == 1..NumObjects
\* The data of an object: its original contents or its edited contents.
Values == {0, 1}

MaxModApps == 3
NumModifiers == 2
MaxIndex == 2
MaxDepth == 3

AppIds == 1..MaxModApps
Modifiers == 1..NumModifiers
Indices == (0 - MaxIndex)..MaxIndex

\* Two animation frames.
Frames == {0, 1}

VARIABLES
    objects,    \* DataCollection.objects of every collection: a list of object ids
    value,      \* the data stored in every data object
    handle,     \* the object last returned by copy_if_needed, held by the script
    cowLast,    \* the last operation on a data collection and its outcome
    pipe,       \* the Pipeline: data_provider and the ModifierApplications
    refList,    \* a Python list of modifiers subjected to the same edits
    removed,    \* the ModifierApplications that an edit removed or replaced
    pipeLast,   \* the last edit of Pipeline.modifiers and its outcome
    params,     \* the parameter value of every modifier
    evalLast,   \* the last call of Pipeline.compute and its outcome
    change,     \* what has changed since the last evaluation
    staleApps,  \* ModifierApplications whose cached result predates an edit
    stack,      \* the operations in progress, the innermost last
    longLast,   \* the last request of an operation and its outcome
    prop,       \* the Property or SimulationCell the script works on
    script,     \* the script's position and the array it holds
    writeLast,  \* the last access to the object's values and its outcome
    scene,      \* the pipelines in the scene and those the script holds
    cancelLast, \* the last cancellable operation and its outcome
    abortLast,  \* the last evaluation that a cancellation aborted
    cont,       \* a container of properties: its kind, its properties, whether it is safe to modify
    contLast,   \* the last operation on the container and its outcome
    finder,     \* the neighbor finder a script has built: its kind, the positions, the cell, its cutoff or N
    query,      \* the running find(): the central particle, the records not yet visited, the exception
    found,      \* the records that find() has yielded so far
    enumerator, \* the bonds enumerator a script has built: the topology and the bonds of each particle
    sweep,      \* the loop of the script over the particles: the current particle, its bonds not yet visited
    collected,  \* the pairs of particle and bond index that the loop has seen
    iter,       \* a neighbor finder and the generators that find() has returned to the script
    ctor,       \* the last NearestNeighborFinder(N, data) call: its arguments and what it did
    indexLast,  \* the last call of __setitem__, __delitem__ or insert with any kind of index, and its outcome
    ds,         \* the scene: its list of pipelines, the selected pipeline, the pipelines that exist
    dsLast,     \* the last call that touched the scene and its outcome
    fsrc,       \* a FileSource: its source path, its importer and the importer's parameter values
    fsLast,     \* the last FileSource.load call and its outcome
    anim,       \* the animation settings: current_frame
    animLast,   \* the last render_image call and its outcome
    sel,        \* a SelectTypeModifier: its native sets of type ids and type names, and a reference set
    selLast     \* the last operation on SelectTypeModifier.types and its outcome

cowVars == <<objects, value, handle, cowLast>>
chainLog == <<refList, removed, pipeLast>>
evalVars == <<params, evalLast, change, staleApps>>

longVars == <<stack, longLast>>
writeVars == <<prop, script, writeLast>>
cancelVars == <<scene, cancelLast>>
abortVars == <<abortLast>>
contVars == <<cont, contLast>>
finderVars == <<finder, query, found>>
bondsVars == <<enumerator, sweep, collected>>
iterVars == <<iter>>
ctorVars == <<ctor>>
indexVars == <<indexLast>>
datasetVars == <<ds, dsLast>>
fileSrcVars == <<fsrc, fsLast>>
animVars == <<anim, animLast>>
typesVars == <<sel, selLast>>

nonCowVars == <<pipe, chainLog, evalVars, longVars, writeVars, cancelVars, abortVars, contVars, finderVars, bondsVars, iterVars, ctorVars, indexVars, datasetVars, fileSrcVars, animVars, typesVars>>
nonChainVars == <<cowVars, evalVars, longVars, writeVars, cancelVars, abortVars, contVars, finderVars, bondsVars, iterVars, ctorVars, indexVars, datasetVars, fileSrcVars, animVars, typesVars>>
nonEvalVars == <<cowVars, chainLog, longVars, writeVars, cancelVars, abortVars, contVars, finderVars, bondsVars, iterVars, ctorVars, indexVars, datasetVars, fileSrcVars, animVars, typesVars>>
nonLongVars == <<cowVars, pipe, chainLog, evalVars, writeVars, cancelVars, abortVars, contVars, finderVars, bondsVars, iterVars, ctorVars, indexVars, datasetVars, fileSrcVars, animVars, typesVars>>
nonWriteVars == <<cowVars, pipe, chainLog, evalVars, longVars, cancelVars, abortVars, contVars, finderVars, bondsVars, iterVars, ctorVars, indexVars, datasetVars, fileSrcVars, animVars, typesVars>>
nonCancelVars == <<cowVars, pipe, chainLog, evalVars, longVars, writeVars, abortVars, contVars, finderVars, bondsVars, iterVars, ctorVars, indexVars, datasetVars, fileSrcVars, animVars, typesVars>>
nonAbortVars == <<cowVars, pipe, chainLog, evalVars, longVars, writeVars, cancelVars, contVars, finderVars, bondsVars, iterVars, ctorVars, indexVars, datasetVars, fileSrcVars, animVars, typesVars>>
nonEvalAbortVars == <<cowVars, chainLog, longVars, writeVars, cancelVars, contVars, finderVars, bondsVars, iterVars, ctorVars, indexVars, datasetVars, fileSrcVars, animVars, typesVars>>
nonContVars == <<cowVars, pipe, chainLog, evalVars, longVars, writeVars, cancelVars, abortVars, finderVars, bondsVars, iterVars, ctorVars, indexVars, datasetVars, fileSrcVars, animVars, typesVars>>
nonFinderVars == <<cowVars, pipe, chainLog, evalVars, longVars, writeVars, cancelVars, abortVars, contVars, bondsVars, iterVars, ctorVars, indexVars, datasetVars, fileSrcVars, animVars, typesVars>>
nonBondsVars == <<cowVars, pipe, chainLog, evalVars, longVars, writeVars, cancelVars, abortVars, contVars, finderVars, iterVars, ctorVars, indexVars, datasetVars, fileSrcVars, animVars, typesVars>>
nonIterVars == <<cowVars, pipe, chainLog, evalVars, longVars, writeVars, cancelVars, abortVars, contVars, finderVars, bondsVars, ctorVars, indexVars, datasetVars, fileSrcVars, animVars, typesVars>>
nonCtorVars == <<cowVars, pipe, chainLog, evalVars, longVars, writeVars, cancelVars, abortVars, contVars, finderVars, bondsVars, iterVars, indexVars, datasetVars, fileSrcVars, animVars, typesVars>>
nonIndexVars == <<cowVars, pipe, chainLog, evalVars, longVars, writeVars, cancelVars, abortVars, contVars, finderVars, bondsVars, iterVars, ctorVars, datasetVars, fileSrcVars, animVars, typesVars>>
nonChainIndexVars == <<cowVars, evalVars, longVars, writeVars, cancelVars, abortVars, contVars, finderVars, bondsVars, iterVars, ctorVars, datasetVars, fileSrcVars, animVars, typesVars>>
nonDatasetVars == <<cowVars, pipe, chainLog, evalVars, longVars, writeVars, cancelVars, abortVars, contVars, finderVars, bondsVars, iterVars, ctorVars, indexVars, fileSrcVars, animVars, typesVars>>
nonFileSrcVars == <<cowVars, pipe, chainLog, evalVars, longVars, writeVars, cancelVars, abortVars, contVars, finderVars, bondsVars, iterVars, ctorVars, indexVars, datasetVars, animVars, typesVars>>
nonAnimVars == <<cowVars, pipe, chainLog, evalVars, longVars, writeVars, cancelVars, abortVars, contVars, finderVars, bondsVars, iterVars, ctorVars, indexVars, datasetVars, fileSrcVars, typesVars>>
nonTypesVars == <<cowVars, pipe, chainLog, evalVars, longVars, writeVars, cancelVars, abortVars, contVars, finderVars, bondsVars, iterVars, ctorVars, indexVars, datasetVars, fileSrcVars, animVars>>

vars == <<objects, value, handle, cowLast, pipe, refList, removed, pipeLast,
          params, evalLast, change, staleApps, stack, longLast,
          prop, script, writeLast,
          scene, cancelLast,
          abortLast,
          cont, contLast,
          finder, query, found,
          enumerator, sweep, collected,
          iter,
          ctor,
          indexLast,
          ds, dsLast,
          fsrc, fsLast,
          anim, animLast,
          sel, selLast>>

(***************************************************************************)
(* Sequence helpers.                                                       *)
(***************************************************************************)
Range(s) == {s[i] : i \in 1..Len(s)}

\* list.index(x): the first position of x in s (1-based), 0 when absent.
IndexOf(s, x) ==
    IF x \in Range(s) THEN CHOOSE i \in 1..Len(s) : s[i] = x /\ \A j \in 1..(i-1) : s[j] # x
    ELSE 0

RemoveAt(s, i) == SubSeq(s, 1, i-1) \o SubSeq(s, i+1, Len(s))

InsertAt(s, i, x) == SubSeq(s, 1, i-1) \o <<x>> \o SubSeq(s, i, Len(s))

ReplaceAt(s, i, x) == [s EXCEPT ![i] = x]

RECURSIVE Reverse(_)
Reverse(s) == IF s = <<>> THEN <<>> ELSE Reverse(Tail(s)) \o <<Head(s)>>

(***************************************************************************)
(* Data objects and data collections (copy-on-write).                      *)
(***************************************************************************)
NoHandle == [coll |-> 0, obj |-> 0, orig |-> 0]
CowIdle == [op |-> "none", coll |-> 0, obj |-> 0, refs |-> 0, pre |-> <<>>, ret |-> 0]

\* DataObject.num_strong_references: the number of data collections holding o.
num_strong_references(objs, o) == Cardinality({c \in Colls : o \in Range(objs[c])})

\* Objects that some collection or the script still refers to.
InUse(objs, h) == UNION {Range(objs[c]) : c \in Colls} \cup ({h.obj, h.orig} \ {0})

\* A newly constructed object takes the lowest identifier not in use.
FreshObject(objs, h) ==
    IF ObjIds \ InUse(objs, h) = {} THEN 0
    ELSE CHOOSE o \in ObjIds \ InUse(objs, h) : \A p \in ObjIds \ InUse(objs, h) : o <= p

\* CloneHelper().clone(obj, deepcopy): a new object carrying a copy of obj's data.
CloneValue(val, o, c) == [val EXCEPT ![c] = val[o]]

\* An object that nothing refers to any more is destroyed.
Release(val, objs, h) == [o \in ObjIds |-> IF o \in InUse(objs, h) THEN val[o] ELSE 0]

\* The state that copy_if_needed reads and writes.
CowState == [objects |-> objects, value |-> value, handle |-> handle]

\* A variant of copy_if_needed that hands out a shared object without cloning
\* it as long as at most two collections hold it.
copy_if_needed_lax(st, A, obj) ==
    IF obj \notin Range(st.objects[A])
    THEN [st |-> st, raised |-> "ValueError", ret |-> 0]
    ELSE IF num_strong_references(st.objects, obj) <= 2
    THEN [st |-> [st EXCEPT !.handle = [coll |-> A, obj |-> obj, orig |-> obj]],
          raised |-> "none", ret |-> obj]
    ELSE LET idx == IndexOf(st.objects[A], obj)
             clone == FreshObject(st.objects, st.handle)
         IN [st |-> [objects |-> [st.objects EXCEPT ![A] = ReplaceAt(@, idx, clone)],
                     value |-> CloneValue(st.value, obj, clone),
                     handle |-> [coll |-> A, obj |-> clone, orig |-> obj]],
             raised |-> "none", ret |-> clone]

\* A variant of copy_if_needed that appends the clone to the object list and
\* leaves the original in its slot.
copy_if_needed_append(st, A, obj) ==
    IF obj \notin Range(st.objects[A])
    THEN [st |-> st, raised |-> "ValueError", ret |-> 0]
    ELSE IF num_strong_references(st.objects, obj) <= 1
    THEN [st |-> [st EXCEPT !.handle = [coll |-> A, obj |-> obj, orig |-> obj]],
          raised |-> "none", ret |-> obj]
    ELSE LET clone == FreshObject(st.objects, st.handle)
         IN [st |-> [objects |-> [st.objects EXCEPT ![A] = Append(@, clone)],
                     value |-> CloneValue(st.value, obj, clone),
                     handle |-> [coll |-> A, obj |-> clone, orig |-> obj]],
             raised |-> "none", ret |-> clone]

\* DataCollection.copy_if_needed(obj) called on collection A.
copy_if_needed(st, A, obj) ==
    IF obj \notin Range(st.objects[A])
    THEN [st |-> st, raised |-> "ValueError", ret |-> 0]
    ELSE IF num_strong_references(st.objects, obj) <= 1
    THEN [st |-> [st EXCEPT !.handle = [coll |-> A, obj |-> obj, orig |-> obj]],
          raised |-> "none", ret |-> obj]
    ELSE LET idx == IndexOf(st.objects[A], obj)
             clone == FreshObject(st.objects, st.handle)
         IN [st |-> [objects |-> [st.objects EXCEPT ![A] = ReplaceAt(@, idx, clone)],
                     value |-> CloneValue(st.value, obj, clone),
                     handle |-> [coll |-> A, obj |-> clone, orig |-> obj]],
             raised |-> "none", ret |-> clone]

\* The script calls A.copy_if_needed(obj) for some object it knows.
CopyIfNeeded(A, obj) ==
    /\ obj \in InUse(objects, handle)
    /\ FreshObject(objects, NoHandle) # 0
    /\ LET r == copy_if_needed([CowState EXCEPT !.handle = NoHandle], A, obj)
       IN /\ objects' = r.st.objects
          /\ value' = Release(r.st.value, r.st.objects, r.st.handle)
          /\ handle' = r.st.handle
          /\ cowLast' = [op |-> IF r.raised = "none" THEN "copy_if_needed" ELSE r.raised,
                         coll |-> A, obj |-> obj,
                         refs |-> num_strong_references(objects, obj),
                         pre |-> objects[A], ret |-> r.ret]

\* dc.objects.append(DataObject()): a newly created object joins collection A.
AppendNewObject(A, v) ==
    /\ Len(objects[A]) < MaxObjectsPerCollection
    /\ FreshObject(objects, NoHandle) # 0
    /\ LET o == FreshObject(objects, NoHandle)
       IN /\ objects' = [objects EXCEPT ![A] = Append(@, o)]
          /\ value' = Release([value EXCEPT ![o] = v], objects', NoHandle)
    /\ handle' = NoHandle
    /\ cowLast' = CowIdle

\* B.objects.append(o) for an object o of collection A: both now share o,
\* as after DataCollection.clone() or a pipeline stage passing o through.
ShareObject(A, B, i) ==
    /\ A # B
    /\ i \in 1..Len(objects[A])
    /\ Len(objects[B]) < MaxObjectsPerCollection
    /\ objects[A][i] \notin Range(objects[B])
    /\ objects' = [objects EXCEPT ![B] = Append(@, objects[A][i])]
    /\ handle' = NoHandle
    /\ cowLast' = CowIdle
    /\ value' = Release(value, objects', NoHandle)

\* dc.objects.remove(o): collection A releases the object in slot i.
RemoveObject(A, i) ==
    /\ i \in 1..Len(objects[A])
    /\ objects' = [objects EXCEPT ![A] = RemoveAt(@, i)]
    /\ handle' = NoHandle
    /\ cowLast' = CowIdle
    /\ value' = Release(value, objects', NoHandle)

\* An in-place edit of the object that copy_if_needed returned.
MutateReturned(v) ==
    /\ handle # NoHandle
    /\ value[handle.obj] # v
    /\ value' = [value EXCEPT ![handle.obj] = v]
    /\ cowLast' = [CowIdle EXCEPT !.op = "mutate"]
    /\ UNCHANGED <<objects, handle>>

CowInit ==
    /\ objects = [c \in Colls |-> <<>>]
    /\ value = [o \in ObjIds |-> 0]
    /\ handle = NoHandle
    /\ cowLast = CowIdle

NextCow ==
    \/ \E A \in Colls, obj \in ObjIds : CopyIfNeeded(A, obj) /\ UNCHANGED nonCowVars
    \/ \E A \in Colls, v \in Values : AppendNewObject(A, v) /\ UNCHANGED nonCowVars
    \/ \E A \in Colls, B \in Colls, i \in 1..MaxObjectsPerCollection :
          ShareObject(A, B, i) /\ UNCHANGED nonCowVars
    \/ \E A \in Colls, i \in 1..MaxObjectsPerCollection :
          RemoveObject(A, i) /\ UNCHANGED nonCowVars
    \/ \E v \in Values : MutateReturned(v) /\ UNCHANGED nonCowVars


(***************************************************************************)
(* The chain of ModifierApplications behind Pipeline.modifiers.            *)
(***************************************************************************)
\* What an input pointer or data_provider may refer to besides a
\* ModifierApplication: the pipeline's data source, or nothing.
SourcePtr == 0
NullPtr == -1

NoEntry == [time |-> -1, result |-> <<>>]

\* A pipeline whose data_provider is its source and that has no modifiers.
EmptyPipeline ==
    [data_provider |-> SourcePtr,
     input |-> [a \in AppIds |-> NullPtr],
     modifier |-> [a \in AppIds |-> 0],
     cache |-> [a \in AppIds |-> NoEntry],
     count |-> 0]

\* The ModifierApplications met when following input pointers from ptr, the
\* one nearest to the source first.
RECURSIVE WalkApps(_, _, _)
WalkApps(p, ptr, fuel) ==
    IF ptr \in 1..p.count /\ fuel > 0
    THEN Append(WalkApps(p, p.input[ptr], fuel - 1), ptr)
    ELSE <<>>

\* PipelineModifierList._modAppList
modAppList(p) == WalkApps(p, p.data_provider, p.count)

\* PipelineModifierList._modifierList
modifierList(p) == [i \in 1..Len(modAppList(p)) |-> p.modifier[modAppList(p)[i]]]

\* What the walk from data_provider reaches behind the last ModifierApplication.
ChainEnd(p) ==
    IF modAppList(p) = <<>> THEN p.data_provider ELSE p.input[modAppList(p)[1]]

\* The ModifierApplications whose input, directly or through others, is app.
Dependents(p, app) == {a \in 1..p.count : app \in Range(WalkApps(p, a, p.count))}

\* A variant of the invalidation that keeps every cached result.
Invalidate_keep(p, app) == p

\* A changed reference discards the cached results of app and of everything
\* that takes its input from app.
Invalidate(p, app) ==
    [p EXCEPT !.cache = [a \in AppIds |-> IF a \in Dependents(p, app) THEN NoEntry ELSE @[a]]]

\* modapp.input = ptr
SetInput(p, app, ptr) == Invalidate([p EXCEPT !.input[app] = ptr], app)

\* pipeline.data_provider = ptr
SetDataProvider(p, ptr) == [p EXCEPT !.data_provider = ptr]

\* modapp = mod.create_modifier_application(); modapp.modifier = mod
NewApp(p) == p.count + 1
CreateModApp(p, mod) == [p EXCEPT !.count = @ + 1, !.modifier[NewApp(p)] = mod]

\* A ModifierApplication that is no longer part of the chain is referenced by
\* nothing and is destroyed.
Collect(p) ==
    LET alive == Range(modAppList(p))
    IN [p EXCEPT !.input = [a \in AppIds |-> IF a \in alive THEN @[a] ELSE NullPtr],
                 !.modifier = [a \in AppIds |-> IF a \in alive THEN @[a] ELSE 0],
                 !.cache = [a \in AppIds |-> IF a \in alive THEN @[a] ELSE NoEntry]]

\* if index < 0: index += len(self)
NormIndex(p, index) == IF index < 0 THEN index + Len(modAppList(p)) ELSE index

\* A variant of __setitem__ that does not link the successor to the new
\* ModifierApplication.
PipelineModifierList__setitem__unlinked(p, index, newMod) ==
    LET idx == NormIndex(p, index)
        modapplist == modAppList(p)
        n == Len(modapplist)
        modapp == NewApp(p)
        q == CreateModApp(p, newMod)
    IN IF idx = n - 1 /\ idx >= 0
       THEN [p |-> SetInput(SetDataProvider(q, modapp), modapp, q.input[modapplist[n]]),
             raised |-> "none"]
       ELSE IF idx < n - 1 /\ idx >= 0
       THEN [p |-> SetInput(q, modapp, q.input[modapplist[idx + 1]]), raised |-> "none"]
       ELSE [p |-> p, raised |-> "IndexError"]

\* PipelineModifierList.__setitem__(index, newMod)
PipelineModifierList__setitem__(p, index, newMod) ==
    LET idx == NormIndex(p, index)
        modapplist == modAppList(p)
        n == Len(modapplist)
        modapp == NewApp(p)
        q == CreateModApp(p, newMod)
    IN IF idx = n - 1 /\ idx >= 0
       THEN [p |-> SetInput(SetDataProvider(q, modapp), modapp, q.input[modapplist[n]]),
             raised |-> "none"]
       ELSE IF idx < n - 1 /\ idx >= 0
       THEN [p |-> SetInput(SetInput(q, modapp, q.input[modapplist[idx + 1]]),
                            modapplist[idx + 2], modapp),
             raised |-> "none"]
       ELSE [p |-> p, raised |-> "IndexError"]

\* A variant of __delitem__ that leaves the successor's input pointer alone.
PipelineModifierList__delitem__norelink(p, index) ==
    LET idx == NormIndex(p, index)
        modapplist == modAppList(p)
        n == Len(modapplist)
    IN IF idx = n - 1 /\ idx >= 0
       THEN [p |-> SetDataProvider(p, p.input[modapplist[n]]), raised |-> "none"]
       ELSE IF idx < n - 1 /\ idx >= 0
       THEN [p |-> p, raised |-> "none"]
       ELSE [p |-> p, raised |-> "IndexError"]

\* A variant of __delitem__ that takes an index beyond the end for the last
\* position.
PipelineModifierList__delitem__clamped(p, index) ==
    LET modapplist == modAppList(p)
        n == Len(modapplist)
        idx == IF NormIndex(p, index) > n - 1 THEN n - 1 ELSE NormIndex(p, index)
    IN IF idx = n - 1 /\ idx >= 0
       THEN [p |-> SetDataProvider(p, p.input[modapplist[n]]), raised |-> "none"]
       ELSE IF idx < n - 1 /\ idx >= 0
       THEN [p |-> SetInput(p, modapplist[idx + 2], p.input[modapplist[idx + 1]]),
             raised |-> "none"]
       ELSE [p |-> p, raised |-> "IndexError"]

\* PipelineModifierList.__delitem__(index)
PipelineModifierList__delitem__(p, index) ==
    LET idx == NormIndex(p, index)
        modapplist == modAppList(p)
        n == Len(modapplist)
    IN IF idx = n - 1 /\ idx >= 0
       THEN [p |-> SetDataProvider(p, p.input[modapplist[n]]), raised |-> "none"]
       ELSE IF idx < n - 1 /\ idx >= 0
       THEN [p |-> SetInput(p, modapplist[idx + 2], p.input[modapplist[idx + 1]]),
             raised |-> "none"]
       ELSE [p |-> p, raised |-> "IndexError"]

\* PipelineModifierList.insert(index, mod). With index = len the code reads
\* modapplist[-1], which raises IndexError on an empty list: in the assert
\* statement when assertions are on, and otherwise after data_provider has
\* already been set to the new ModifierApplication.
PipelineModifierList_insert(p, index, mod, asserts) ==
    LET idx == NormIndex(p, index)
        modapplist == modAppList(p)
        n == Len(modapplist)
        modapp == NewApp(p)
        q == CreateModApp(p, mod)
    IN IF idx = n /\ idx >= 0
       THEN IF n = 0
            THEN IF asserts
                 THEN [p |-> p, raised |-> "IndexError"]
                 ELSE [p |-> SetDataProvider(q, modapp), raised |-> "IndexError"]
            ELSE [p |-> SetInput(SetDataProvider(q, modapp), modapp, modapplist[n]),
                  raised |-> "none"]
       ELSE IF idx <= n - 1 /\ idx >= 0
       THEN [p |-> SetInput(SetInput(q, modapp, q.input[modapplist[idx + 1]]),
                            modapplist[idx + 1], modapp),
             raised |-> "none"]
       ELSE [p |-> p, raised |-> "IndexError"]

\* PipelineModifierList.append(mod)
PipelineModifierList_append(p, mod) ==
    LET modapp == NewApp(p)
        q == CreateModApp(p, mod)
    IN [p |-> SetDataProvider(SetInput(q, modapp, q.data_provider), modapp),
        raised |-> "none"]

(***************************************************************************)
(* The same edits on a Python list.                                        *)
(***************************************************************************)
PyNorm(l, index) == IF index < 0 THEN index + Len(l) ELSE index

PyInRange(l, index) == PyNorm(l, index) >= 0 /\ PyNorm(l, index) < Len(l)

PySetItem(l, index, x) ==
    IF PyInRange(l, index) THEN ReplaceAt(l, PyNorm(l, index) + 1, x) ELSE l

PyDelItem(l, index) ==
    IF PyInRange(l, index) THEN RemoveAt(l, PyNorm(l, index) + 1) ELSE l

\* insert at a position of the list or at its end; the modifier list takes no
\* other index.
PyInsert(l, index, x) ==
    IF PyNorm(l, index) >= 0 /\ PyNorm(l, index) <= Len(l)
    THEN InsertAt(l, PyNorm(l, index) + 1, x)
    ELSE l

ChainIdle == [op |-> "none", index |-> 0, mod |-> 0, raised |-> "none", pre |-> <<>>]

\* The ModifierApplication at a position of the chain, as a set.
AppAt(p, index) ==
    IF PyInRange(modAppList(p), index)
    THEN {modAppList(p)[PyNorm(modAppList(p), index) + 1]}
    ELSE {}

\* pipeline.modifiers[index] = newMod
SetItem(index, newMod) ==
    /\ pipe.count < MaxModApps
    /\ pipe' = Collect(PipelineModifierList__setitem__(pipe, index, newMod).p)

\* del pipeline.modifiers[index]
DelItem(index) ==
    /\ pipe' = Collect(PipelineModifierList__delitem__(pipe, index).p)

\* pipeline.modifiers.insert(index, mod)
InsertItem(index, mod, asserts) ==
    /\ pipe.count < MaxModApps
    /\ pipe' = Collect(PipelineModifierList_insert(pipe, index, mod, asserts).p)

\* pipeline.modifiers.append(mod)
AppendItem(mod) ==
    /\ pipe.count < MaxModApps
    /\ pipe' = Collect(PipelineModifierList_append(pipe, mod).p)

\* What the script observes of an edit (the exception raised, if any), the
\* same edit replayed on the reference list, and the ModifierApplication that
\* the edit removes or replaces.
LogSetItem(index, newMod) ==
    /\ pipeLast' = [op |-> "setitem", index |-> index, mod |-> newMod,
                    raised |-> PipelineModifierList__setitem__(pipe, index, newMod).raised,
                    pre |-> modifierList(pipe)]
    /\ refList' = PySetItem(refList, index, newMod)
    /\ removed' = removed \cup AppAt(pipe, index)

LogDelItem(index) ==
    /\ pipeLast' = [op |-> "delitem", index |-> index, mod |-> 0,
                    raised |-> PipelineModifierList__delitem__(pipe, index).raised,
                    pre |-> modifierList(pipe)]
    /\ refList' = PyDelItem(refList, index)
    /\ removed' = removed \cup AppAt(pipe, index)

LogInsertItem(index, mod, asserts) ==
    LET raised == PipelineModifierList_insert(pipe, index, mod, asserts).raised
    IN /\ pipeLast' = [op |-> "insert", index |-> index, mod |-> mod,
                       raised |-> raised, pre |-> modifierList(pipe)]
       \* an insert that raised is not replayed on the reference list
       /\ refList' = IF raised = "none" THEN PyInsert(refList, index, mod) ELSE refList
       /\ UNCHANGED removed

LogAppendItem(mod) ==
    /\ pipeLast' = [op |-> "append", index |-> Len(modAppList(pipe)), mod |-> mod,
                    raised |-> PipelineModifierList_append(pipe, mod).raised,
                    pre |-> modifierList(pipe)]
    /\ refList' = Append(refList, mod)
    /\ UNCHANGED removed

ChainInit ==
    /\ pipe = EmptyPipeline
    /\ refList = <<>>
    /\ removed = {}
    /\ pipeLast = ChainIdle

\* Edits by append, __delitem__ and __setitem__.
NextChain ==
    \/ \E m \in Modifiers : AppendItem(m) /\ LogAppendItem(m) /\ UNCHANGED nonChainVars
    \/ \E i \in Indices : DelItem(i) /\ LogDelItem(i) /\ UNCHANGED nonChainVars
    \/ \E i \in Indices, m \in Modifiers :
          SetItem(i, m) /\ LogSetItem(i, m) /\ UNCHANGED nonChainVars

\* Edits by all four list operations.
NextInsert ==
    \/ \E m \in Modifiers : AppendItem(m) /\ LogAppendItem(m) /\ UNCHANGED nonChainVars
    \/ \E i \in Indices : DelItem(i) /\ LogDelItem(i) /\ UNCHANGED nonChainVars
    \/ \E i \in Indices, m \in Modifiers :
          SetItem(i, m) /\ LogSetItem(i, m) /\ UNCHANGED nonChainVars
    \/ \E i \in Indices, m \in Modifiers, asserts \in BOOLEAN :
          InsertItem(i, m, asserts) /\ LogInsertItem(i, m, asserts) /\ UNCHANGED nonChainVars

(***************************************************************************)
(* Pipeline evaluation and its caches.                                     *)
(***************************************************************************)
\* The value of a modifier's parameter; with InvalidParam the modifier's
\* stage ends with an Error status.
ParamValues == {0, 1, 2}
InvalidParam == 0

\* The output of the stage of ModifierApplication app: a record of who
\* produced it and with what parameter value.
StageToken(p, par, app) == <<app, p.modifier[app], par[p.modifier[app]]>>

\* The data the head of the chain delivers for animation frame t.
SourceData(p, t) == << <<ChainEnd(p), 0, t>> >>

\* The last position of the chain whose cache holds a result for frame t, or 0.
CacheStart(p, t) ==
    LET apps == modAppList(p)
        hits == {c \in 1..Len(apps) : p.cache[apps[c]].time = t}
    IN IF hits = {} THEN 0 ELSE CHOOSE c \in hits : \A d \in hits : d <= c

\* Stages i, i+1, ... run in order on the data of their predecessor; each
\* successful stage caches its output; an Error status ends the evaluation.
RECURSIVE RunStages(_, _, _, _, _)
RunStages(p, par, t, i, st) ==
    IF i > Len(modAppList(p))
    THEN st
    ELSE LET app == modAppList(p)[i]
             out == Append(st.data, StageToken(p, par, app))
         IN IF par[p.modifier[app]] = InvalidParam
            THEN [st EXCEPT !.ran = Append(@, i), !.status = "Error", !.text = app]
            ELSE RunStages(p, par, t, i + 1,
                           [st EXCEPT !.cache[app] = [time |-> t, result |-> out],
                                      !.data = out,
                                      !.ran = Append(@, i)])

\* A variant of evaluate_pipeline that never reads a cache.
evaluate_pipeline_nocache(p, par, t) ==
    RunStages(p, par, t, 1,
              [cache |-> p.cache, data |-> SourceData(p, t), ran |-> <<>>,
               status |-> "Success", text |-> 0, start |-> 0])

\* Pipeline.evaluate_pipeline(time)
evaluate_pipeline(p, par, t) ==
    LET c == CacheStart(p, t)
        from == IF c = 0 THEN SourceData(p, t) ELSE p.cache[modAppList(p)[c]].result
    IN RunStages(p, par, t, c + 1,
                 [cache |-> p.cache, data |-> from, ran |-> <<>>,
                  status |-> "Success", text |-> 0, start |-> c])

\* A variant of compute that returns the data whatever the status is.
Pipeline_compute_unchecked(p, par, frame) ==
    LET state == evaluate_pipeline(p, par, frame)
    IN [state |-> state, raised |-> "none", message |-> 0, ret |-> state.data]

\* Pipeline.compute(frame)
Pipeline_compute(p, par, frame) ==
    LET state == evaluate_pipeline(p, par, frame)
    IN IF state.status = "Error"
       THEN [state |-> state, raised |-> "RuntimeError", message |-> state.text, ret |-> <<>>]
       ELSE [state |-> state, raised |-> "none", message |-> 0, ret |-> state.data]

\* A variant of the invalidation that discards the cache of the changed
\* ModifierApplication alone.
InvalidateModifier_shallow(p, m) ==
    [p EXCEPT !.cache = [a \in AppIds |-> IF p.modifier[a] = m THEN NoEntry ELSE @[a]]]

\* A changed modifier parameter discards the cached results of every stage
\* that uses the modifier and of every stage downstream of one.
InvalidateModifier(p, m) ==
    [p EXCEPT !.cache = [a \in AppIds |->
        IF \E b \in 1..p.count : p.modifier[b] = m /\ a \in Dependents(p, b)
        THEN NoEntry ELSE @[a]]]

NoChange == [kind |-> "none", pos |-> 0, first |-> 0, frame |-> -1]
NoEval == [called |-> FALSE, frame |-> -1, raised |-> "none", message |-> 0, ret |-> <<>>,
           ran |-> <<>>, status |-> "Success", len |-> 0, start |-> 0,
           fromStale |-> FALSE, refreshed |-> FALSE, fresh |-> TRUE, same |-> FALSE, change |-> NoChange, prevFrame |-> -1, prevRaised |-> "none"]

\* What has changed since the last evaluation: nothing, one thing, or more.
Note(c) == IF change = NoChange THEN c ELSE [kind |-> "many", pos |-> 0, first |-> 0, frame |-> -1]

\* The first stage of the chain that uses modifier m.
FirstStage(p, m) ==
    CHOOSE k \in 1..Len(modAppList(p)) :
        /\ modifierList(p)[k] = m
        /\ \A j \in 1..(k - 1) : modifierList(p)[j] # m

\* pipeline.modifiers[k].parameter = v
ChangeParam(k, v) ==
    /\ k \in 1..Len(modAppList(pipe))
    /\ LET m == modifierList(pipe)[k]
       IN /\ params[m] # v
          /\ params' = [params EXCEPT ![m] = v]
          /\ pipe' = InvalidateModifier(pipe, m)
          \* frame: the frame of the evaluation that succeeded just before
          /\ change' = Note([kind |-> "param", pos |-> k, first |-> FirstStage(pipe, m),
                             frame |-> IF evalLast.called /\ evalLast.raised = "none"
                                       THEN evalLast.frame ELSE -1])
    /\ evalLast' = NoEval
    /\ UNCHANGED staleApps

\* pipeline.compute(frame)
Compute(frame) ==
    LET r == Pipeline_compute(pipe, params, frame)
        apps == modAppList(pipe)
        cached == {apps[i] : i \in {j \in Range(r.state.ran) : r.state.cache[apps[j]] # pipe.cache[apps[j]]}}
    IN /\ pipe' = [pipe EXCEPT !.cache = r.state.cache]
       /\ evalLast' = [called |-> TRUE, frame |-> frame, raised |-> r.raised, message |-> r.message,
                       ret |-> r.ret, ran |-> r.state.ran,
                       status |-> r.state.status,
                       len |-> Len(apps), start |-> r.state.start,
                       fromStale |-> r.state.start > 0 /\ apps[r.state.start] \in staleApps,
                       refreshed |-> staleApps \cap cached # {},
                       fresh |-> r.state.data = evaluate_pipeline_nocache(pipe, params, frame).data,
                       same |-> r.ret = evalLast.ret,
                       change |-> change,
                       prevFrame |-> evalLast.frame, prevRaised |-> evalLast.raised]
       /\ change' = NoChange
       /\ staleApps' = staleApps \ cached
       /\ UNCHANGED params

\* An edit at a position of the list: the results cached before the edit for
\* that position and for every later one now predate the edit.
EditAt(pos) ==
    /\ change' = [kind |-> "edit", pos |-> 0, first |-> 0, frame |-> -1]
    /\ staleApps' = (staleApps \cup
                     {modAppList(pipe)[j] : j \in {i \in pos..Len(modAppList(pipe)) :
                                                    pipe.cache[modAppList(pipe)[i]] # NoEntry}})
                    \cap Range(modAppList(pipe'))
    /\ evalLast' = NoEval
    /\ UNCHANGED params

\* The position that an edit with this index changes, len + 1 when the index
\* is outside the list.
EditPos(index) ==
    IF PyInRange(modAppList(pipe), index)
    THEN PyNorm(modAppList(pipe), index) + 1
    ELSE Len(modAppList(pipe)) + 1

EvalInit ==
    /\ params = [m \in Modifiers |-> 1]
    /\ evalLast = NoEval
    /\ change = NoChange
    /\ staleApps = {}

\* The chain grows by append; parameters change; compute is called.
NextEval ==
    \/ \E m \in Modifiers :
          AppendItem(m) /\ EditAt(Len(modAppList(pipe)) + 1) /\ UNCHANGED nonEvalVars
    \/ \E k \in AppIds, v \in ParamValues : ChangeParam(k, v) /\ UNCHANGED nonEvalVars
    \/ \E f \in Frames : Compute(f) /\ UNCHANGED nonEvalVars

\* The assert statement of insert is reached with a chain that violates it
\* only when the chain is empty; elsewhere the builds with and without
\* assert statements behave alike.
Builds(p) == IF modAppList(p) = <<>> THEN BOOLEAN ELSE {TRUE}

\* The chain is edited by all four list operations; compute is called.
NextEdit ==
    \/ \E m \in Modifiers :
          AppendItem(m) /\ EditAt(Len(modAppList(pipe)) + 1) /\ UNCHANGED nonEvalVars
    \/ \E i \in Indices : DelItem(i) /\ EditAt(EditPos(i)) /\ UNCHANGED nonEvalVars
    \/ \E i \in Indices, m \in Modifiers :
          SetItem(i, m) /\ EditAt(EditPos(i)) /\ UNCHANGED nonEvalVars
    \/ \E i \in Indices, m \in Modifiers, asserts \in Builds(pipe) :
          InsertItem(i, m, asserts) /\ EditAt(EditPos(i)) /\ UNCHANGED nonEvalVars
    \/ \E f \in Frames : Compute(f) /\ UNCHANGED nonEvalVars

(***************************************************************************)
(* Long-running operations.                                                *)
(***************************************************************************)
LongOps == {"import_file", "FileSource.load", "export_file", "render_image", "render_anim"}
Operations == LongOps \cup {"compute"}

\* dataset.request_long_operation(): refused while an operation or a
\* pipeline evaluation is in progress.
request_long_operation(stk) == IF stk = <<>> THEN "none" ELSE "RuntimeError"

\* A variant in which export_file does not ask for permission.
LongOperationGuard_noexport(op) == op \in LongOps \ {"export_file"}

\* The functions that call request_long_operation() before they start their
\* work; Pipeline.compute does not.
LongOperationGuard(op) == op \in LongOps

LongIdle == [event |-> "none", op |-> "none", raised |-> "none", depth |-> 0]

\* The script, or a script function called back by the operation in progress
\* (a Python modifier during an evaluation, an overlay during rendering),
\* calls op.
CallOperation(op) ==
    /\ Len(stack) < MaxDepth
    /\ LET raised == IF LongOperationGuard(op) THEN request_long_operation(stack) ELSE "none"
       IN /\ stack' = IF raised = "none" THEN Append(stack, op) ELSE stack
          /\ longLast' = [event |-> "call", op |-> op, raised |-> raised, depth |-> Len(stack)]

\* The innermost operation in progress ends, with a result or an exception.
ReturnOperation(failed) ==
    /\ stack # <<>>
    /\ stack' = SubSeq(stack, 1, Len(stack) - 1)
    /\ longLast' = [event |-> "return", op |-> stack[Len(stack)],
                    raised |-> IF failed THEN "Exception" ELSE "none",
                    depth |-> Len(stack) - 1]

LongInit ==
    /\ stack = <<>>
    /\ longLast = LongIdle

NextLong ==
    \/ \E op \in Operations : CallOperation(op) /\ UNCHANGED nonLongVars
    \/ \E failed \in BOOLEAN : ReturnOperation(failed) /\ UNCHANGED nonLongVars

(***************************************************************************)
(* Write access to the values of a Property or a SimulationCell.  There    *)
(* are two scripting layers: "plugins" (plugins/stdobj/resources) and      *)
(* "ovito" (ovito/stdobj/scripting).                                       *)
(***************************************************************************)
Layers == {"plugins", "ovito"}
Kinds == {"Property", "SimulationCell"}

NoProp == [layer |-> "none", kind |-> "none", writable |-> FALSE, data |-> 0, dirty |-> FALSE]
NoScript == [pc |-> "idle", array |-> "none"]
WriteIdle == [op |-> "none", edited |-> FALSE, inSection |-> FALSE, raised |-> "none",
              exit |-> "none"]

make_writable(o) == [o EXCEPT !.writable = TRUE]
make_readonly(o) == [o EXCEPT !.writable = FALSE]
notify_object_changed(o) == [o EXCEPT !.dirty = FALSE]

\* The array interface of the object: the array can be written if the object
\* is writable when the array is made.
ArrayOf(o) == IF o.writable THEN "rw" ELSE "ro"

\* array[idx] = v: numpy refuses to write to a read-only array.
WriteTo(o, array, v) ==
    IF array = "rw"
    THEN [o |-> [o EXCEPT !.data = v, !.dirty = TRUE], raised |-> "none",
          edited |-> TRUE, inSection |-> o.writable]
    ELSE [o |-> o, raised |-> "ValueError", edited |-> FALSE, inSection |-> FALSE]

\* __enter__ and __exit__ of the object
Property__enter__(o) == make_writable(o)
Property__exit__(o) == notify_object_changed(make_readonly(o))

\* The script obtains a data object from a pipeline.
Obtain(layer, kind, v) ==
    /\ script.pc = "idle"
    /\ prop' = [layer |-> layer, kind |-> kind, writable |-> FALSE, data |-> v, dirty |-> FALSE]
    /\ script' = NoScript
    /\ writeLast' = WriteIdle

\* obj[idx] = v
SetValue(v) ==
    /\ prop.layer \in Layers
    /\ LET w == IF prop.layer = "plugins"
                \* numpy.asanyarray(self)[idx] = value
                THEN WriteTo(prop, ArrayOf(prop), v)
                \* with self: self.__array__impl__()[idx] = value
                ELSE LET e == WriteTo(Property__enter__(prop), ArrayOf(Property__enter__(prop)), v)
                     IN [e EXCEPT !.o = Property__exit__(e.o)]
       IN /\ prop' = w.o
          /\ writeLast' = [op |-> "setitem", edited |-> w.edited, inSection |-> w.inSection,
                           raised |-> w.raised, exit |-> "none"]
    /\ UNCHANGED script

\* with obj as a:
EnterWith ==
    /\ prop.layer \in Layers
    /\ script.pc = "idle"
    /\ prop' = Property__enter__(prop)
    \* "plugins": return numpy.asanyarray(self); "ovito": return self
    /\ script' = [pc |-> "with",
                  array |-> IF prop.layer = "plugins" THEN ArrayOf(Property__enter__(prop))
                            ELSE script.array]
    /\ writeLast' = [WriteIdle EXCEPT !.op = "enter"]

\* The with block ends, normally or because of an exception raised in it.
ExitWith(exception) ==
    /\ script.pc = "with"
    /\ prop' = Property__exit__(prop)
    /\ script' = [script EXCEPT !.pc = "idle"]
    /\ writeLast' = [WriteIdle EXCEPT !.op = "exit",
                                      !.exit = IF exception THEN "exception" ELSE "normal",
                                      !.raised = IF exception THEN "Exception" ELSE "none"]

\* a = obj.marray
GetMarray ==
    /\ prop.layer \in Layers
    /\ prop.kind = "Property"
    \* self.make_writable(); a = ...; self.make_readonly(); return a
    /\ prop' = make_readonly(make_writable(prop))
    \* "plugins": numpy.asanyarray(self); "ovito": self.__array__(), a PropertyView
    /\ script' = [script EXCEPT !.array = IF prop.layer = "plugins"
                                          THEN ArrayOf(make_writable(prop)) ELSE "view"]
    /\ writeLast' = [WriteIdle EXCEPT !.op = "marray"]

\* obj.marray = a
AssignMarray ==
    /\ prop.layer \in Layers
    /\ prop.kind = "Property"
    /\ script.array # "none"
    /\ prop' = notify_object_changed(prop)
    /\ writeLast' = [WriteIdle EXCEPT !.op = "marray_assign"]
    /\ UNCHANGED script

\* a[idx] = v, with the array the script holds
WriteArray(v) ==
    /\ script.array # "none"
    /\ LET w == IF script.array = "view"
                \* PropertyView.__setitem__: with self._data_context_manager: ...
                THEN LET e == WriteTo(Property__enter__(prop), "rw", v)
                     IN [e EXCEPT !.o = Property__exit__(e.o)]
                ELSE WriteTo(prop, script.array, v)
       IN /\ prop' = w.o
          /\ writeLast' = [op |-> "array", edited |-> w.edited, inSection |-> w.inSection,
                           raised |-> w.raised, exit |-> "none"]
    /\ UNCHANGED script

WriteInit ==
    /\ prop = NoProp
    /\ script = NoScript
    /\ writeLast = WriteIdle

NextWrite ==
    \/ \E l \in Layers, k \in Kinds, v \in Values : Obtain(l, k, v) /\ UNCHANGED nonWriteVars
    \/ \E v \in Values : SetValue(v) /\ UNCHANGED nonWriteVars
    \/ EnterWith /\ UNCHANGED nonWriteVars
    \/ \E exception \in BOOLEAN : ExitWith(exception) /\ UNCHANGED nonWriteVars
    \/ GetMarray /\ UNCHANGED nonWriteVars
    \/ AssignMarray /\ UNCHANGED nonWriteVars
    \/ \E v \in Values : WriteArray(v) /\ UNCHANGED nonWriteVars

(***************************************************************************)
(* Operations that the user can cancel.  The native call of every step     *)
(* reports a cancellation by returning False.                              *)
(***************************************************************************)
MaxPipelines == 2

Progress == {"ok", "cancelled"}
StatusTypes == {"Success", "Error"}

CancelIdle == [op |-> "none", natives |-> <<>>, cancelled |-> FALSE, raised |-> "none",
               message |-> "none", ret |-> "none"]
Raise(type, message) == [raised |-> type, message |-> message, ret |-> "none"]
Return(ret) == [raised |-> "none", message |-> "none", ret |-> ret]
CanceledMessage == "Operation has been canceled by the user."

\* FileSource.load(location): set_source, wait_until_ready, status,
\* wait_for_frames_list
FileSource_load(set_source, wait_until_ready, status, wait_for_frames_list) ==
    IF set_source = "cancelled" THEN Raise("RuntimeError", CanceledMessage)
    ELSE IF wait_until_ready = "cancelled" THEN Raise("RuntimeError", CanceledMessage)
    ELSE IF status = "Error" THEN Raise("RuntimeError", "status.text")
    ELSE IF wait_for_frames_list = "cancelled" THEN Raise("RuntimeError", CanceledMessage)
    ELSE Return("None")

\* import_file(location): importer.import_file, evaluate_pipeline(0).status,
\* wait_for_frames_list; deleted: the new pipeline was deleted again
import_file(importer_import_file, status, wait_for_frames_list) ==
    IF importer_import_file = "cancelled"
    THEN Raise("RuntimeError", CanceledMessage) @@ [created |-> FALSE, deleted |-> FALSE]
    ELSE IF status = "Error"
    THEN Raise("RuntimeError", "status.text") @@ [created |-> TRUE, deleted |-> TRUE]
    ELSE IF wait_for_frames_list = "cancelled"
    THEN Raise("RuntimeError", CanceledMessage) @@ [created |-> TRUE, deleted |-> TRUE]
    ELSE Return("pipeline") @@ [created |-> TRUE, deleted |-> FALSE]

\* CutoffNeighborFinder(cutoff, data), NearestNeighborFinder(N, data)
NeighborFinder__init__(prepare) ==
    IF prepare = "cancelled" THEN Raise("RuntimeError", CanceledMessage) ELSE Return("finder")

\* Viewport.render_image(): None when render_scene returns False
Viewport_render_image(render_scene) ==
    IF render_scene = "cancelled" THEN Return("None") ELSE Return("image")

\* Viewport.render_anim(): the value of render_scene
Viewport_render_anim(render_scene) ==
    IF render_scene = "cancelled" THEN Return("False") ELSE Return("True")

\* The native calls that were made, with what they reported.
Made(natives) ==
    LET stop == {i \in 1..Len(natives) : natives[i] \in {"cancelled", "Error"}}
    IN IF stop = {} THEN natives
       ELSE SubSeq(natives, 1, CHOOSE i \in stop : \A j \in stop : i <= j)

Outcome(op, natives, r) ==
    [op |-> op, natives |-> Made(natives), cancelled |-> "cancelled" \in Range(Made(natives)),
     raised |-> r.raised, message |-> r.message, ret |-> r.ret]

LoadFile(a, b, c, d) ==
    /\ scene.held > 0
    /\ cancelLast' = Outcome("FileSource.load", <<a, b, c, d>>, FileSource_load(a, b, c, d))
    \* set_source has replaced the source location even if waiting was cancelled
    /\ scene' = [scene EXCEPT !.reloaded = (a = "ok")]

ImportFile(a, b, c) ==
    LET r == import_file(a, b, c)
    IN /\ scene.held < MaxPipelines
       /\ cancelLast' = Outcome("import_file", <<a, b, c>>, r)
       \* the pipeline is removed from the scene in every case; the script
       \* holds it when the call returns
       /\ scene' = [scene EXCEPT !.held = IF r.raised = "none" THEN @ + 1 ELSE @]

\* del pipeline
DropPipeline ==
    /\ scene.held > 0
    /\ scene.inScene < scene.held
    /\ scene' = [scene EXCEPT !.held = @ - 1, !.reloaded = FALSE]
    /\ cancelLast' = CancelIdle

\* pipeline.add_to_scene()
AddToScene ==
    /\ scene.inScene < scene.held
    /\ scene' = [scene EXCEPT !.inScene = @ + 1]
    /\ cancelLast' = CancelIdle

\* pipeline.remove_from_scene()
RemoveFromScene ==
    /\ scene.inScene > 0
    /\ scene' = [scene EXCEPT !.inScene = @ - 1]
    /\ cancelLast' = CancelIdle

MakeFinder(kind, a) ==
    /\ scene.held > 0
    /\ cancelLast' = Outcome(kind, <<a>>, NeighborFinder__init__(a))
    /\ UNCHANGED scene

RenderImage(a) ==
    /\ cancelLast' = Outcome("render_image", <<a>>, Viewport_render_image(a))
    /\ UNCHANGED scene

RenderAnim(a) ==
    /\ cancelLast' = Outcome("render_anim", <<a>>, Viewport_render_anim(a))
    /\ UNCHANGED scene

CancelInit ==
    /\ scene = [held |-> 0, inScene |-> 0, reloaded |-> FALSE]
    /\ cancelLast = CancelIdle

NextCancel ==
    \/ \E a \in Progress, b \in Progress, c \in StatusTypes, d \in Progress :
          LoadFile(a, b, c, d) /\ UNCHANGED nonCancelVars
    \/ \E a \in Progress, b \in StatusTypes, c \in Progress :
          ImportFile(a, b, c) /\ UNCHANGED nonCancelVars
    \/ DropPipeline /\ UNCHANGED nonCancelVars
    \/ AddToScene /\ UNCHANGED nonCancelVars
    \/ RemoveFromScene /\ UNCHANGED nonCancelVars
    \/ \E k \in {"CutoffNeighborFinder", "NearestNeighborFinder"}, a \in Progress :
          MakeFinder(k, a) /\ UNCHANGED nonCancelVars
    \/ \E a \in Progress : RenderImage(a) /\ UNCHANGED nonCancelVars
    \/ \E a \in Progress : RenderAnim(a) /\ UNCHANGED nonCancelVars

(***************************************************************************)
(* Evaluations aborted by a cancellation signal.                           *)
(***************************************************************************)
\* A variant in which the aborted stage leaves an entry for the requested
\* frame that holds the data it had received.
AbortStage_partial(st, app, t) ==
    [st EXCEPT !.status = "Cancelled", !.cache[app] = [time |-> t, result |-> st.data]]

\* The stage that the cancellation interrupts stores nothing.
AbortStage(st, app, t) == [st EXCEPT !.status = "Cancelled"]

\* RunStages with a cancellation signal that arrives while stage cancelAt runs.
RECURSIVE RunStagesUntil(_, _, _, _, _, _)
RunStagesUntil(p, par, t, i, st, cancelAt) ==
    IF i > Len(modAppList(p))
    THEN st
    ELSE LET app == modAppList(p)[i]
             out == Append(st.data, StageToken(p, par, app))
         IN IF i = cancelAt
            THEN AbortStage([st EXCEPT !.ran = Append(@, i)], app, t)
            ELSE IF par[p.modifier[app]] = InvalidParam
            THEN [st EXCEPT !.ran = Append(@, i), !.status = "Error", !.text = app]
            ELSE RunStagesUntil(p, par, t, i + 1,
                                [st EXCEPT !.cache[app] = [time |-> t, result |-> out],
                                           !.data = out,
                                           !.ran = Append(@, i)],
                                cancelAt)

\* evaluate_pipeline(time), cancelled while stage cancelAt runs
evaluate_pipeline_cancelled(p, par, t, cancelAt) ==
    LET c == CacheStart(p, t)
        from == IF c = 0 THEN SourceData(p, t) ELSE p.cache[modAppList(p)[c]].result
    IN RunStagesUntil(p, par, t, c + 1,
                      [cache |-> p.cache, data |-> from, ran |-> <<>>,
                       status |-> "Success", text |-> 0, start |-> c],
                      cancelAt)

NoAbort == [called |-> FALSE, frame |-> -1, at |-> 0]

\* An evaluation for a frame is requested and the user cancels it while
\* stage cancelAt runs.
AbortedEvaluation(frame, cancelAt) ==
    LET r == evaluate_pipeline_cancelled(pipe, params, frame, cancelAt)
        apps == modAppList(pipe)
    IN /\ cancelAt \in (CacheStart(pipe, frame) + 1)..Len(apps)
       /\ r.status = "Cancelled"
       /\ pipe' = [pipe EXCEPT !.cache = r.cache]
       /\ abortLast' = [called |-> TRUE, frame |-> frame, at |-> cancelAt]
       /\ evalLast' = NoEval
       /\ staleApps' = staleApps \ {a \in Range(apps) : r.cache[a] # pipe.cache[a]}
       /\ UNCHANGED <<params, change>>

AbortInit == abortLast = NoAbort

NextAbort ==
    \/ \E m \in Modifiers :
          AppendItem(m) /\ EditAt(Len(modAppList(pipe)) + 1) /\ UNCHANGED nonEvalVars
    \/ \E f \in Frames : Compute(f) /\ UNCHANGED nonEvalVars
    \/ \E f \in Frames, j \in AppIds :
          AbortedEvaluation(f, j) /\ UNCHANGED nonEvalAbortVars

(***************************************************************************)
(* Containers of properties: ParticlesView and BondsView over a            *)
(* DataCollection, and PropertyContainer.                                  *)
(***************************************************************************)
MaxElements == 2

ContainerKinds == {"ParticlesView", "BondsView", "PropertyContainer", "DataObjectsDict"}

\* Property types: User, the property that defines the element count
\* (Position for particles, Topology for bonds), and one more standard one.
TypeUser == "Type.User"
TypeKey == "Type.Position or Type.Topology"
TypeColor == "Type.Color"
PropertyTypes == {TypeUser, TypeKey, TypeColor}
StandardOrder == <<TypeKey, TypeColor, TypeUser>>

TypeName(kind, type) ==
    IF type = TypeKey THEN (IF kind = "BondsView" THEN "Topology" ELSE "Position")
    ELSE IF type = TypeColor THEN "Color"
    ELSE "My Property"

\* The arrays that a script passes as data, and None.
Arrays == {[i \in 1..n |-> v] : n \in 0..MaxElements, v \in Values}
None == <<-1>>
Zeros(n) == [i \in 1..n |-> 0]

NoContainer == [kind |-> "none", properties |-> <<>>, safe |-> TRUE]
ContIdle == [op |-> "none", raised |-> "none", ret |-> 0, copied |-> FALSE,
             flag |-> FALSE, unchanged |-> TRUE, stored |-> 0, safe |-> TRUE,
             mismatch |-> FALSE, match |-> FALSE, added |-> 0]

\* A copy of the object in slot j takes its place; nothing else refers to it.
Replaced(c, j) == [c EXCEPT !.properties[j].shared = FALSE]

\* What a call returns: None, or the object in a slot of the list, which is
\* the object that was there before the call or a copy made by the call.
ReturnNone == [ret |-> 0, copied |-> FALSE]
ReturnStored(j) == [ret |-> j, copied |-> FALSE]
ReturnCopy(j) == [ret |-> j, copied |-> TRUE]

\* The positions of the properties that satisfy a test, in list order.
Matching(c, Test(_)) == {j \in 1..Len(c.properties) : Test(c.properties[j])}
First(S) == CHOOSE j \in S : \A k \in S : j <= k
Last(S) == CHOOSE j \in S : \A k \in S : k <= j

\* container.make_mutable(p): p itself if nothing else refers to it, else a
\* copy that takes its place in the list.
make_mutable(c, j) ==
    IF c.properties[j].shared
    THEN [c |-> Replaced(c, j)] @@ ReturnCopy(j)
    ELSE [c |-> c] @@ ReturnStored(j)

\* A variant of __getitem__ that does not check is_safe_to_modify.
PropertyContainer__getitem__unchecked(c, name, underscore) ==
    LET hits == Matching(c, LAMBDA p : p.name = name)
    IN IF hits = {} THEN [c |-> c, raised |-> "KeyError"] @@ ReturnNone
       ELSE IF underscore
       THEN make_mutable(c, First(hits)) @@ [raised |-> "none"]
       ELSE [c |-> c, raised |-> "none"] @@ ReturnStored(First(hits))

\* container[key]: key is name, or name + '_' to request a mutable property
\* (PropertyContainer.__getitem__ and DataObjectsDict.__getitem__)
PropertyContainer__getitem__(c, name, underscore) ==
    LET hits == Matching(c, LAMBDA p : p.name = name)
    IN IF underscore /\ ~c.safe THEN [c |-> c, raised |-> "ValueError"] @@ ReturnNone
       ELSE IF hits = {} THEN [c |-> c, raised |-> "KeyError"] @@ ReturnNone
       ELSE IF underscore
       THEN make_mutable(c, First(hits)) @@ [raised |-> "none"]
       ELSE [c |-> c, raised |-> "none"] @@ ReturnStored(First(hits))

\* A variant of __getitem__ that makes the object mutable in every case.
DataObjectsDict__getitem__mutable(c, name, underscore) ==
    LET hits == Matching(c, LAMBDA p : p.name = name)
    IN IF underscore /\ ~c.safe THEN [c |-> c, raised |-> "ValueError"] @@ ReturnNone
       ELSE IF hits = {} THEN [c |-> c, raised |-> "KeyError"] @@ ReturnNone
       ELSE make_mutable(c, First(hits)) @@ [raised |-> "none"]

\* DataObjectsDict.__getitem__(key)
DataObjectsDict__getitem__(c, name, underscore) ==
    LET hits == Matching(c, LAMBDA p : p.name = name)
    IN IF underscore /\ ~c.safe THEN [c |-> c, raised |-> "ValueError"] @@ ReturnNone
       ELSE IF hits = {} THEN [c |-> c, raised |-> "KeyError"] @@ ReturnNone
       ELSE IF underscore
       THEN make_mutable(c, First(hits)) @@ [raised |-> "none"]
       ELSE [c |-> c, raised |-> "none"] @@ ReturnStored(First(hits))

\* ParticlesView.__getitem__(key) and BondsView.__getitem__(key): the key is
\* the name as it is, and no property has a name that ends with '_'.
ParticlesView__getitem__(c, name, underscore) ==
    LET hits == Matching(c, LAMBDA p : p.name = name /\ ~underscore)
    IN IF hits = {} THEN [c |-> c, raised |-> "KeyError"] @@ ReturnNone
       ELSE [c |-> c, raised |-> "none"] @@ ReturnStored(First(hits))

\* container[key] of each kind of container
getitem(c, name, underscore) ==
    IF c.kind = "PropertyContainer" THEN PropertyContainer__getitem__(c, name, underscore)
    ELSE IF c.kind = "DataObjectsDict" THEN DataObjectsDict__getitem__(c, name, underscore)
    ELSE ParticlesView__getitem__(c, name, underscore)

\* DataCollection.find(object_type): the first object of the type, or None
DataCollection_find(c, type) ==
    LET hits == Matching(c, LAMBDA p : p.type = type)
    IN IF hits = {} THEN [c |-> c, raised |-> "none"] @@ ReturnNone
       ELSE [c |-> c, raised |-> "none"] @@ ReturnStored(First(hits))

\* DataCollection.expect(object_type)
DataCollection_expect(c, type) ==
    LET o == DataCollection_find(c, type)
    IN IF o.ret = 0 THEN [c |-> c, raised |-> "KeyError"] @@ ReturnNone ELSE o

\* The script gets a container of a kind, with count properties of n
\* elements each (as a file reader or a modifier made it).
NewContainer(kind, count, n) ==
    /\ cont' = [kind |-> kind, safe |-> TRUE,
                properties |-> [j \in 1..count |->
                                  [type |-> StandardOrder[j],
                                   name |-> TypeName(kind, StandardOrder[j]),
                                   data |-> Zeros(n), shared |-> FALSE]]]
    /\ contLast' = ContIdle

\* A pipeline or another collection takes or gives up a reference to the
\* container or to one of its properties.
SetSafe(safe) ==
    /\ cont.kind # "none"
    /\ safe # cont.safe
    /\ cont' = [cont EXCEPT !.safe = safe]
    /\ contLast' = ContIdle

SetShared(j, shared) ==
    /\ j \in 1..Len(cont.properties)
    /\ shared # cont.properties[j].shared
    /\ cont' = [cont EXCEPT !.properties[j].shared = shared]
    /\ contLast' = ContIdle

\* What a script sees of a call: the exception or the returned object, and
\* what the container held before it (stored: the object that had the name;
\* flag: the key had a trailing underscore, or the name was a type constant;
\* match, mismatch: the call gave data whose length is, or is not, the element
\* count; added: how many properties the container has more than before).
Observed(op, name, flag, data, r) ==
    LET hits == Matching(cont, LAMBDA p : p.name = name)
    IN [op |-> op, raised |-> r.raised, ret |-> r.ret, copied |-> r.copied, flag |-> flag,
        unchanged |-> r.c = cont /\ ~r.copied,
        stored |-> IF hits = {} THEN 0 ELSE First(hits),
        safe |-> cont.safe,
        mismatch |-> /\ data # None
                     /\ cont.properties # <<>>
                     /\ Len(data) # Len(cont.properties[1].data),
        match |-> /\ data # None
                  /\ cont.properties # <<>> => Len(data) = Len(cont.properties[1].data),
        added |-> Len(r.c.properties) - Len(cont.properties)]

GetItem(type, underscore) ==
    LET name == TypeName(cont.kind, type)
        r == getitem(cont, name, underscore)
    IN /\ cont.kind # "none"
       /\ cont' = r.c
       /\ contLast' = Observed("getitem", name, underscore, None, r)

Find(type) ==
    LET r == DataCollection_find(cont, type)
    IN /\ cont.kind # "none"
       /\ cont' = r.c
       /\ contLast' = Observed("find", TypeName(cont.kind, type), FALSE, None, r)

Expect(type) ==
    LET r == DataCollection_expect(cont, type)
    IN /\ cont.kind # "none"
       /\ cont' = r.c
       /\ contLast' = Observed("expect", TypeName(cont.kind, type), FALSE, None, r)

\* The steps that ParticlesView.create_property, BondsView.create_property
\* and PropertyContainer.create_property share, once the property type is
\* known: validation, the element count, the length check.
\* typed: the call gives dtype and components.
ElementCount(c, type, data) ==
    LET key == Matching(c, LAMBDA p : p.type = TypeKey)
    IN IF c.kind = "PropertyContainer"
       THEN (IF Len(c.properties) = 0
             THEN (IF data = None THEN -1 ELSE Len(data))
             ELSE Len(c.properties[1].data))
       ELSE (IF key = {}
             THEN (IF type # TypeKey \/ data = None THEN -1 ELSE Len(data))
             ELSE Len(c.properties[Last(key)].data))

\* A variant that takes the element count from the data of the call.
create_property_unchecked(c, byType, type, typed, data) ==
    LET name == TypeName(c.kind, type)
        existing == Matching(c, LAMBDA p : p.type = type /\ (type # TypeUser \/ p.name = name))
        n == IF data = None THEN ElementCount(c, type, data) ELSE Len(data)
        fail(e) == [c |-> c, raised |-> e] @@ ReturnNone
    IN IF byType /\ type = TypeUser THEN fail("TypeError")
       ELSE IF c.kind = "PropertyContainer" /\ ~byType THEN fail("NameError")
       ELSE IF type # TypeUser /\ typed THEN fail("ValueError")
       ELSE IF type = TypeUser /\ ~typed /\ data = None THEN fail("ValueError")
       ELSE IF n < 0 THEN fail("RuntimeError")
       ELSE IF existing = {}
       THEN IF c.kind = "PropertyContainer" THEN fail("NameError")
            ELSE LET added == [c EXCEPT !.properties =
                                Append(@, [type |-> type, name |-> name,
                                           data |-> IF data = None THEN Zeros(n) ELSE data,
                                           shared |-> FALSE])]
                 IN [c |-> added, raised |-> "none"] @@ ReturnCopy(Len(added.properties))
       ELSE LET j == Last(existing)
                m == IF c.kind = "PropertyContainer" THEN make_mutable(c, j)
                     ELSE [c |-> Replaced(c, j)] @@ ReturnCopy(j)
            IN [c |-> IF data = None THEN m.c ELSE [m.c EXCEPT !.properties[j].data = data],
                raised |-> "none", ret |-> m.ret, copied |-> m.copied]

\* create_property(name, dtype, components, data) of the three kinds of
\* container. byType: name is a type constant and not a string.
create_property(c, byType, type, typed, data) ==
    LET name == TypeName(c.kind, type)
        existing == Matching(c, LAMBDA p : p.type = type /\ (type # TypeUser \/ p.name = name))
        n == ElementCount(c, type, data)
        fail(e) == [c |-> c, raised |-> e] @@ ReturnNone
    IN IF byType /\ type = TypeUser THEN fail("TypeError")
       ELSE IF c.kind = "PropertyContainer" /\ ~byType THEN fail("NameError")
       ELSE IF type # TypeUser /\ typed THEN fail("ValueError")
       ELSE IF type = TypeUser /\ ~typed /\ data = None THEN fail("ValueError")
       ELSE IF n < 0 THEN fail("RuntimeError")
       ELSE IF data # None /\ Len(data) # n THEN fail("ValueError")
       ELSE IF existing = {}
       THEN IF c.kind = "PropertyContainer" THEN fail("NameError")
            ELSE LET added == [c EXCEPT !.properties =
                                Append(@, [type |-> type, name |-> name,
                                           data |-> IF data = None THEN Zeros(n) ELSE data,
                                           shared |-> FALSE])]
                 IN [c |-> added, raised |-> "none"] @@ ReturnCopy(Len(added.properties))
       ELSE LET j == Last(existing)
                m == IF c.kind = "PropertyContainer" THEN make_mutable(c, j)
                     ELSE [c |-> Replaced(c, j)] @@ ReturnCopy(j)
            IN [c |-> IF data = None THEN m.c ELSE [m.c EXCEPT !.properties[j].data = data],
                raised |-> "none", ret |-> m.ret, copied |-> m.copied]

CreateProperty(byType, type, typed, data) ==
    LET r == create_property(cont, byType, type, typed, data)
    IN /\ cont.kind \notin {"none", "DataObjectsDict"}
       /\ cont' = r.c
       /\ contLast' = Observed("create_property", TypeName(cont.kind, type), byType, data, r)

ContInit ==
    /\ cont = NoContainer
    /\ contLast = ContIdle

NextContainer ==
    \/ \E k \in ContainerKinds, count \in 0..Cardinality(PropertyTypes), n \in 0..MaxElements :
          NewContainer(k, count, n) /\ UNCHANGED nonContVars
    \/ \E s \in BOOLEAN : SetSafe(s) /\ UNCHANGED nonContVars
    \/ \E j \in 1..Cardinality(PropertyTypes), s \in BOOLEAN :
          SetShared(j, s) /\ UNCHANGED nonContVars
    \/ \E t \in PropertyTypes, u \in BOOLEAN : GetItem(t, u) /\ UNCHANGED nonContVars
    \/ \E t \in PropertyTypes : Find(t) /\ UNCHANGED nonContVars
    \/ \E t \in PropertyTypes : Expect(t) /\ UNCHANGED nonContVars
    \/ \E b \in BOOLEAN, t \in PropertyTypes, ty \in BOOLEAN, a \in Arrays \cup {None} :
          CreateProperty(b, t, ty, a) /\ UNCHANGED nonContVars

(***************************************************************************)
(* Neighbor finders.  Particles sit at integer positions on a line; the    *)
(* cell has length cell and is periodic or not.                            *)
(***************************************************************************)
MaxParticles == 2
CellLengths == {1, 2, 3}
Cutoffs == {1, 2, 3}
MaxNeighbors == 2

Abs(x) == IF x < 0 THEN -x ELSE x

NoFinder == [kind |-> "none", pos |-> <<>>, cell |-> 1, pbc |-> FALSE, cutoff |-> 0, N |-> 0]
NoQuery == [center |-> -1, pending |-> <<>>, raised |-> "none"]

\* The record of the image of particle j (counted from 0, as in the script)
\* shifted by s cells, as seen from particle i.
Neighbor(f, i, j, s) ==
    LET d == f.pos[j + 1] + s * f.cell - f.pos[i + 1]
    IN [index |-> j, delta |-> d, distance |-> Abs(d), distance_squared |-> d * d,
        pbc_shift |-> s]

\* The images that a walk over the cells visits: every particle in every
\* periodic image of the cell from -k to k (only the cell itself when the
\* cell is not periodic), image by image.
RECURSIVE Images(_, _, _, _, _)
Images(f, i, s, j, k) ==
    IF s > k THEN <<>>
    ELSE IF j >= Len(f.pos) THEN Images(f, i, s + 1, 0, k)
    ELSE <<Neighbor(f, i, j, s)>> \o Images(f, i, s, j + 1, k)

Stencil(f, reach) == IF f.pbc THEN (reach + f.cell - 1) \div f.cell ELSE 0

Select(seq, Test(_)) == SelectSeq(seq, Test)

\* A variant of the query that looks at the nearest image of a cell only.
CutoffNeighborFinder_Query_nearest_image(f, i) ==
    LET k == IF f.pbc THEN 1 ELSE 0
    IN Select(Images(f, i, -k, 0, k),
              LAMBDA n : /\ n.distance_squared <= f.cutoff * f.cutoff
                         /\ ~(n.index = i /\ n.pbc_shift = 0))

\* A variant of the query that looks at no periodic image at all.
CutoffNeighborFinder_Query_nonperiodic(f, i) ==
    Select(Images(f, i, 0, 0, 0),
           LAMBDA n : /\ n.distance_squared <= f.cutoff * f.cutoff
                      /\ ~(n.index = i /\ n.pbc_shift = 0))

\* CutoffNeighborFinder.Query(finder, index): the images within the cutoff,
\* without the central particle itself.
CutoffNeighborFinder_Query(f, i) ==
    LET k == Stencil(f, f.cutoff)
    IN Select(Images(f, i, -k, 0, k),
              LAMBDA n : /\ n.distance_squared <= f.cutoff * f.cutoff
                         /\ ~(n.index = i /\ n.pbc_shift = 0))

\* The records of a list in ascending order of distance (insertion sort,
\* records of equal distance keep their order).
RECURSIVE SortByDistance(_)
InsertByDistance(sorted, n) ==
    LET before == SelectSeq(sorted, LAMBDA m : m.distance_squared <= n.distance_squared)
        after == SelectSeq(sorted, LAMBDA m : m.distance_squared > n.distance_squared)
    IN before \o <<n>> \o after
SortByDistance(seq) ==
    IF seq = <<>> THEN <<>>
    ELSE InsertByDistance(SortByDistance(SubSeq(seq, 1, Len(seq) - 1)), seq[Len(seq)])

FirstN(seq, n) == SubSeq(seq, 1, IF Len(seq) < n THEN Len(seq) ELSE n)

\* A variant of findNeighbors that keeps the images at distance zero.
NearestNeighborFinder_findNeighbors_withself(f, i) ==
    LET k == Stencil(f, f.N * f.cell)
    IN FirstN(SortByDistance(Images(f, i, -k, 0, k)), f.N)

\* NearestNeighborFinder.Query.findNeighbors(index): the N closest images in
\* ascending order of distance, without those at distance zero.
NearestNeighborFinder_findNeighbors(f, i) ==
    LET k == Stencil(f, f.N * f.cell)
    IN FirstN(SortByDistance(Select(Images(f, i, -k, 0, k),
                                    LAMBDA n : n.distance_squared > 0)), f.N)

\* CutoffNeighborFinder.find(index) up to its first yield
CutoffNeighborFinder_find(f, index) ==
    IF index < 0 \/ index >= Len(f.pos)
    THEN [center |-> index, pending |-> <<>>, raised |-> "IndexError"]
    ELSE [center |-> index, pending |-> CutoffNeighborFinder_Query(f, index),
          raised |-> "none"]

\* NearestNeighborFinder.find(index) up to its first yield
NearestNeighborFinder_find(f, index) ==
    IF index < 0 \/ index >= Len(f.pos)
    THEN [center |-> index, pending |-> <<>>, raised |-> "IndexError"]
    ELSE [center |-> index, pending |-> NearestNeighborFinder_findNeighbors(f, index),
          raised |-> "none"]

Positions(cell) == UNION {[1..n -> 0..(cell - 1)] : n \in 1..MaxParticles}

\* finder = CutoffNeighborFinder(cutoff, data)
NewCutoffFinder(cell, pbc, pos, cutoff) ==
    /\ finder' = [kind |-> "cutoff", pos |-> pos, cell |-> cell, pbc |-> pbc,
                  cutoff |-> cutoff, N |-> 0]
    /\ query' = NoQuery
    /\ found' = <<>>

\* finder = NearestNeighborFinder(N, data)
NewNearestFinder(cell, pbc, pos, N) ==
    /\ finder' = [kind |-> "nearest", pos |-> pos, cell |-> cell, pbc |-> pbc,
                  cutoff |-> 0, N |-> N]
    /\ query' = NoQuery
    /\ found' = <<>>

\* for n in finder.find(index): the call and the construction of the query
Find_start(index) ==
    /\ finder.kind # "none"
    /\ query' = IF finder.kind = "cutoff" THEN CutoffNeighborFinder_find(finder, index)
                ELSE NearestNeighborFinder_find(finder, index)
    /\ found' = <<>>
    /\ UNCHANGED finder

\* the loop of find(): yield the current record and go to the next one
Find_yield ==
    /\ query.pending # <<>>
    /\ found' = Append(found, Head(query.pending))
    /\ query' = [query EXCEPT !.pending = Tail(@)]
    /\ UNCHANGED finder

FinderInit ==
    /\ finder = NoFinder
    /\ query = NoQuery
    /\ found = <<>>

NextFinder ==
    \/ \E cell \in CellLengths, pbc \in BOOLEAN, c \in Cutoffs :
          \E pos \in Positions(cell) :
             NewCutoffFinder(cell, pbc, pos, c) /\ UNCHANGED nonFinderVars
    \/ \E cell \in CellLengths, pbc \in BOOLEAN, n \in 1..MaxNeighbors :
          \E pos \in Positions(cell) :
             NewNearestFinder(cell, pbc, pos, n) /\ UNCHANGED nonFinderVars
    \/ \E index \in -1..MaxParticles : Find_start(index) /\ UNCHANGED nonFinderVars
    \/ Find_yield /\ UNCHANGED nonFinderVars

(***************************************************************************)
(* BondsEnumerator: the bonds of each particle, from the bond topology.    *)
(***************************************************************************)
MaxBonds == 3

BondParticles == {0, 1}
Topologies == UNION {[1..m -> BondParticles \X BondParticles] : m \in 0..MaxBonds}

NoEnumerator == [topology |-> <<>>, adjacency |-> [p \in BondParticles |-> <<>>], built |-> FALSE]
NoSweep == [particle |-> -1, pending |-> <<>>]

\* A variant of the construction that enters a bond once per particle.
RECURSIVE BondsEnumerator_build_once(_, _, _)
BondsEnumerator_build_once(topology, b, adjacency) ==
    IF b >= Len(topology) THEN adjacency
    ELSE LET first == topology[b + 1][1]
             second == topology[b + 1][2]
             one == [adjacency EXCEPT ![first] = Append(@, b)]
             two == IF second = first THEN one ELSE [one EXCEPT ![second] = Append(@, b)]
         IN BondsEnumerator_build_once(topology, b + 1, two)

\* The construction of the index: bond by bond in the order of the topology
\* array, every bond is entered in the list of its first and in the list of
\* its second particle.
RECURSIVE BondsEnumerator_build(_, _, _)
BondsEnumerator_build(topology, b, adjacency) ==
    IF b >= Len(topology) THEN adjacency
    ELSE LET first == topology[b + 1][1]
             second == topology[b + 1][2]
             one == [adjacency EXCEPT ![first] = Append(@, b)]
             two == [one EXCEPT ![second] = Append(@, b)]
         IN BondsEnumerator_build(topology, b + 1, two)

\* bonds_enum = BondsEnumerator(bonds)
NewEnumerator(topology) ==
    /\ enumerator' = [topology |-> topology, built |-> TRUE,
                      adjacency |-> BondsEnumerator_build(topology, 0, NoEnumerator.adjacency)]
    /\ sweep' = NoSweep
    /\ collected' = <<>>

\* for particle_index in range(count): the next bonds_of_particle(particle_index)
BondsOfParticle ==
    /\ enumerator.built
    /\ sweep.pending = <<>>
    /\ sweep.particle + 1 \in BondParticles
    /\ sweep' = [particle |-> sweep.particle + 1,
                 pending |-> enumerator.adjacency[sweep.particle + 1]]
    /\ UNCHANGED <<enumerator, collected>>

\* for bond_index in bonds_of_particle(particle_index): the next bond index
NextBond ==
    /\ sweep.pending # <<>>
    /\ collected' = Append(collected, [particle |-> sweep.particle, bond |-> Head(sweep.pending)])
    /\ sweep' = [sweep EXCEPT !.pending = Tail(@)]
    /\ UNCHANGED enumerator

BondsInit ==
    /\ enumerator = NoEnumerator
    /\ sweep = NoSweep
    /\ collected = <<>>

NextBonds ==
    \/ \E t \in Topologies : NewEnumerator(t) /\ UNCHANGED nonBondsVars
    \/ BondsOfParticle /\ UNCHANGED nonBondsVars
    \/ NextBond /\ UNCHANGED nonBondsVars

(***************************************************************************)
(* find() is a generator function: the call returns a generator and runs   *)
(* none of the body; the body runs when the script asks for a record.      *)
(***************************************************************************)
Generators == {1, 2}
IterCells == {2}

NoGenerator == [state |-> "none", index |-> 0, pending |-> <<>>, out |-> <<>>, resumed |-> 0]
NoIter == [finder |-> NoFinder, gen |-> [g \in Generators |-> NoGenerator]]

\* finder.find(index): the generator object, nothing of the body has run
Generator_call(index) ==
    [state |-> "created", index |-> index, pending |-> <<>>, out |-> <<>>, resumed |-> 0]

\* The body of find() from the top to the first yield or to its end.
Generator_start(f, gen) ==
    LET q == IF f.kind = "cutoff" THEN CutoffNeighborFinder_find(f, gen.index)
             ELSE NearestNeighborFinder_find(f, gen.index)
    IN IF q.raised # "none"
       THEN [gen EXCEPT !.state = q.raised, !.resumed = @ + 1]
       ELSE IF q.pending = <<>>
       THEN [gen EXCEPT !.state = "StopIteration", !.resumed = @ + 1]
       ELSE [gen EXCEPT !.state = "suspended", !.pending = q.pending,
                        !.out = <<Head(q.pending)>>, !.resumed = @ + 1]

\* The body of find() from a yield to the next one or to its end:
\* query.next(), then the test of the loop.
Generator_resume(gen) ==
    IF Tail(gen.pending) = <<>>
    THEN [gen EXCEPT !.state = "StopIteration", !.pending = <<>>, !.resumed = @ + 1]
    ELSE [gen EXCEPT !.pending = Tail(@), !.out = Append(@, Head(Tail(gen.pending))),
                     !.resumed = @ + 1]

\* A variant of next() in which the generators of a finder share the state
\* of one query.
Generator_next_shared(it, g) ==
    IF it.gen[g].state = "created"
    THEN [it EXCEPT !.gen[g] = Generator_start(it.finder, @)]
    ELSE [it EXCEPT !.gen = [h \in Generators |->
                                IF h = g THEN Generator_resume(it.gen[h])
                                ELSE IF Len(it.gen[h].pending) >= 2
                                THEN [it.gen[h] EXCEPT !.pending = Tail(@)]
                                ELSE it.gen[h]]]

\* next(generator), as the for statement calls it
Generator_next(it, g) ==
    IF it.gen[g].state = "created"
    THEN [it EXCEPT !.gen[g] = Generator_start(it.finder, @)]
    ELSE [it EXCEPT !.gen[g] = Generator_resume(@)]

\* finder = CutoffNeighborFinder(cutoff, data) or NearestNeighborFinder(N, data)
IterNewFinder(kind, cell, pbc, pos, c) ==
    /\ iter' = [NoIter EXCEPT !.finder =
                   [kind |-> kind, pos |-> pos, cell |-> cell, pbc |-> pbc,
                    cutoff |-> IF kind = "cutoff" THEN c ELSE 0,
                    N |-> IF kind = "cutoff" THEN 0 ELSE c]]

\* g = finder.find(index)
IterFind(g, index) ==
    /\ iter.finder.kind # "none"
    /\ iter.gen[g].state = "none"
    /\ iter' = [iter EXCEPT !.gen[g] = Generator_call(index)]

\* next(g)
IterNext(g) ==
    /\ iter.gen[g].state \in {"created", "suspended"}
    /\ iter' = Generator_next(iter, g)

IterInit == iter = NoIter

NextIter ==
    \/ \E cell \in IterCells, pbc \in BOOLEAN, c \in Cutoffs :
          \E pos \in Positions(cell) :
             IterNewFinder("cutoff", cell, pbc, pos, c) /\ UNCHANGED nonIterVars
    \/ \E cell \in IterCells, pbc \in BOOLEAN, n \in 1..MaxNeighbors :
          \E pos \in Positions(cell) :
             IterNewFinder("nearest", cell, pbc, pos, n) /\ UNCHANGED nonIterVars
    \/ \E g \in Generators, index \in -1..MaxParticles :
          IterFind(g, index) /\ UNCHANGED nonIterVars
    \/ \E g \in Generators : IterNext(g) /\ UNCHANGED nonIterVars

(***************************************************************************)
(* NearestNeighborFinder(N, data)                                          *)
(***************************************************************************)
MaxSupportedNeighbors == 30
NValues == {-1, 0, 1, MaxSupportedNeighbors, MaxSupportedNeighbors + 1}

NoCtor == [N |-> 1, pos |-> None, cell |-> 1, prepare |-> TRUE, raised |-> "none",
           initialised |-> {}, prepared |-> {}, particle_count |-> {}]

\* NearestNeighborFinder.__init__(N, data_collection)
\* pos, cell: the positions of the particles (None when the collection has no
\* particles) and the cell; prepare: what the native prepare() returns.
\* initialised, prepared: the N that the native base class was initialised
\* with and the N of the finder that prepare() was called on, if they were.
NearestNeighborFinder__init__(N, pos, cell, prepare) ==
    LET base == [NoCtor EXCEPT !.N = N, !.pos = pos, !.cell = cell, !.prepare = prepare,
                               !.initialised = {N}]
    IN IF N <= 0 \/ N > MaxSupportedNeighbors THEN [base EXCEPT !.raised = "ValueError"]
       ELSE IF pos = None THEN [base EXCEPT !.raised = "KeyError"]
       ELSE IF ~prepare
       THEN [base EXCEPT !.particle_count = {Len(pos)}, !.prepared = {N},
                         !.raised = "RuntimeError"]
       ELSE [base EXCEPT !.particle_count = {Len(pos)}, !.prepared = {N}]

Construct(N, pos, cell, prepare) ==
    ctor' = NearestNeighborFinder__init__(N, pos, cell, prepare)

CtorInit == ctor = NoCtor

NextCtor ==
    \E N \in NValues, cell \in CellLengths, prepare \in BOOLEAN :
        \E pos \in Positions(cell) \cup {None} :
            Construct(N, pos, cell, prepare) /\ UNCHANGED nonCtorVars

(***************************************************************************)
(* The minimum image convention, and a cubic cell of side 10 with          *)
(* particles on the x axis; lengths are counted in tenths.                 *)
(***************************************************************************)
ScenarioCells == {100}
ScenarioSites == {1, 50, 99}
ScenarioCutoffs == {5, 60}

\* The integer nearest to a / b, for b > 0.
RoundDiv(a, b) == (2 * a + b) \div (2 * b)

\* SimulationCell._delta_vector(delta, return_pbcvec): the displacement in
\* reduced coordinates, rounded to the nearest integer in a periodic
\* direction, is taken off the displacement.
SimulationCell__delta_vector(cell, pbc, delta) ==
    LET n == IF pbc THEN RoundDiv(delta, cell) ELSE 0
    IN [delta |-> delta - n * cell, pbcvec |-> n]

\* SimulationCell.delta_vector(ra, rb, return_pbcvec=True)
SimulationCell_delta_vector(cell, pbc, ra, rb) ==
    SimulationCell__delta_vector(cell, pbc, rb - ra)

NextScenario ==
    \/ \E cell \in ScenarioCells, pbc \in BOOLEAN, c \in ScenarioCutoffs :
          \E pos \in [1..2 -> ScenarioSites] :
             NewCutoffFinder(cell, pbc, pos, c) /\ UNCHANGED nonFinderVars
    \/ \E index \in -1..2 : Find_start(index) /\ UNCHANGED nonFinderVars
    \/ Find_yield /\ UNCHANGED nonFinderVars

(***************************************************************************)
(* The list operations called with any kind of index.                      *)
(***************************************************************************)
\* What a script passes as index: an integer, a slice, or a value that is
\* neither (a float, a string).
IndexArgs == [kind : {"int"}, value : Indices] \cup [kind : {"slice", "other"}, value : {0}]

IndexIdle == [op |-> "none", arg |-> [kind |-> "int", value |-> 0], raised |-> "none",
              unchanged |-> TRUE, len |-> 0]

\* __setitem__(index, newMod): the tests of the index type, then the edit
setitem_call(p, arg, newMod) ==
    IF arg.kind = "slice" THEN [p |-> p, raised |-> "TypeError"]
    ELSE IF arg.kind # "int" THEN [p |-> p, raised |-> "TypeError"]
    ELSE PipelineModifierList__setitem__(p, arg.value, newMod)

\* __delitem__(index): the tests of the index type, then the edit
delitem_call(p, arg) ==
    IF arg.kind = "slice" THEN [p |-> p, raised |-> "TypeError"]
    ELSE IF arg.kind # "int" THEN [p |-> p, raised |-> "TypeError"]
    ELSE PipelineModifierList__delitem__(p, arg.value)

\* insert(index, mod): the test of the index type, then the edit
insert_call(p, arg, mod, asserts) ==
    IF arg.kind # "int" THEN [p |-> p, raised |-> "TypeError"]
    ELSE PipelineModifierList_insert(p, arg.value, mod, asserts)

IndexObserved(op, arg, r) ==
    [op |-> op, arg |-> arg, raised |-> r.raised, unchanged |-> r.p = pipe,
     len |-> Len(modAppList(pipe))]

SetItemCall(arg, newMod) ==
    LET r == setitem_call(pipe, arg, newMod)
    IN /\ pipe.count < MaxModApps
       /\ pipe' = Collect(r.p)
       /\ indexLast' = IndexObserved("setitem", arg, r)

DelItemCall(arg) ==
    LET r == delitem_call(pipe, arg)
    IN /\ pipe' = Collect(r.p)
       /\ indexLast' = IndexObserved("delitem", arg, r)

InsertCall(arg, mod, asserts) ==
    LET r == insert_call(pipe, arg, mod, asserts)
    IN /\ pipe.count < MaxModApps
       /\ pipe' = Collect(r.p)
       /\ indexLast' = IndexObserved("insert", arg, r)

AppendCall(mod) ==
    /\ AppendItem(mod)
    /\ indexLast' = IndexIdle

IndexInit == indexLast = IndexIdle

NextIndex ==
    \/ \E m \in Modifiers : AppendCall(m) /\ UNCHANGED <<chainLog, nonChainIndexVars>>
    \/ \E a \in IndexArgs, m \in Modifiers :
          SetItemCall(a, m) /\ UNCHANGED <<chainLog, nonChainIndexVars>>
    \/ \E a \in IndexArgs : DelItemCall(a) /\ UNCHANGED <<chainLog, nonChainIndexVars>>
    \/ \E a \in IndexArgs, m \in Modifiers :
          \E asserts \in Builds(pipe) :
             InsertCall(a, m, asserts) /\ UNCHANGED <<chainLog, nonChainIndexVars>>

(***************************************************************************)
(* The scene: DataSet.pipelines and DataSet.selected_pipeline.             *)
(***************************************************************************)
PipelineIds == 1..(MaxPipelines + 1)
NoPipeline == 0

EmptyScene == [pipelines |-> <<>>, selected |-> NoPipeline, exists |-> {}]
DsIdle == [op |-> "none", raised |-> "none", ret |-> NoPipeline, pre |-> <<>>,
           created |-> NoPipeline]

\* A variant of add_to_scene that appends the pipeline in every case.
Pipeline_add_to_scene_always(d, p) ==
    [d EXCEPT !.pipelines = Append(@, p), !.selected = p]

\* Pipeline.add_to_scene()
Pipeline_add_to_scene(d, p) ==
    [d EXCEPT !.pipelines = IF p \notin Range(@) THEN Append(@, p) ELSE @,
              !.selected = p]

\* A variant of remove_from_scene that leaves the list alone.
Pipeline_remove_from_scene_kept(d, p) ==
    [d EXCEPT !.selected = IF @ = p THEN NoPipeline ELSE @]

\* Pipeline.remove_from_scene()
Pipeline_remove_from_scene(d, p) ==
    [d EXCEPT !.pipelines = IF p \in Range(@) THEN RemoveAt(@, IndexOf(@, p)) ELSE @,
              !.selected = IF @ = p THEN NoPipeline ELSE @]

\* Pipeline.delete(): the pipeline leaves the scene and ceases to exist.
Pipeline_delete(d, p) ==
    [d EXCEPT !.pipelines = SelectSeq(@, LAMBDA x : x # p),
              !.selected = IF @ = p THEN NoPipeline ELSE @,
              !.exists = @ \ {p}]

NewPipelineId(d) == CHOOSE p \in PipelineIds \ d.exists : \A q \in PipelineIds \ d.exists : p <= q

\* importer.import_file(location_list, ImportMode.AddToScene, False): a new
\* pipeline is put into the scene and selected, unless the user cancels.
importer_import_file(d, outcome) ==
    IF outcome = "cancelled" THEN d
    ELSE [d EXCEPT !.pipelines = Append(@, NewPipelineId(d)),
                   !.selected = NewPipelineId(d),
                   !.exists = @ \cup {NewPipelineId(d)}]

\* import_file(location, **params) and the scene.
\* detected: autodetect_format found an importer; known: the importer has
\* every keyword parameter; outcome: what importer.import_file reports;
\* status: of evaluate_pipeline(0); frames: of wait_for_frames_list.
import_file_scene(d, detected, known, outcome, status, frames) ==
    LET imported == importer_import_file(d, outcome)
        pipeline == imported.selected
        fail(after) == [d |-> after, raised |-> "RuntimeError", ret |-> NoPipeline]
    IN IF ~detected THEN fail(d) @@ [created |-> NoPipeline]
       ELSE IF ~known THEN fail(d) @@ [created |-> NoPipeline]
       ELSE IF outcome = "cancelled" THEN fail(imported) @@ [created |-> NoPipeline]
       ELSE IF status = "Error" \/ frames = "cancelled"
       THEN fail(Pipeline_delete(imported, pipeline)) @@ [created |-> pipeline]
       ELSE [d |-> Pipeline_remove_from_scene(imported, pipeline), raised |-> "none",
             ret |-> pipeline, created |-> pipeline]

\* pipeline = Pipeline(...)
NewPipeline ==
    /\ ds.exists # PipelineIds
    /\ ds' = [ds EXCEPT !.exists = @ \cup {NewPipelineId(ds)}]
    /\ dsLast' = DsIdle

\* del pipeline, for a pipeline that is not in the scene
ForgetPipeline(p) ==
    /\ p \in ds.exists \ Range(ds.pipelines)
    /\ p # ds.selected
    /\ ds' = [ds EXCEPT !.exists = @ \ {p}]
    /\ dsLast' = DsIdle

SceneAdd(p) ==
    /\ p \in ds.exists
    /\ ds' = Pipeline_add_to_scene(ds, p)
    /\ dsLast' = [DsIdle EXCEPT !.op = "add_to_scene", !.pre = ds.pipelines]

SceneRemove(p) ==
    /\ p \in ds.exists
    /\ ds' = Pipeline_remove_from_scene(ds, p)
    /\ dsLast' = [DsIdle EXCEPT !.op = "remove_from_scene", !.pre = ds.pipelines]

SceneImport(detected, known, outcome, status, frames) ==
    LET r == import_file_scene(ds, detected, known, outcome, status, frames)
    IN /\ ds.exists # PipelineIds
       /\ ds' = r.d
       /\ dsLast' = [op |-> "import_file", raised |-> r.raised, ret |-> r.ret,
                     pre |-> ds.pipelines, created |-> r.created]

DatasetInit ==
    /\ ds = EmptyScene
    /\ dsLast = DsIdle

NextScene ==
    \/ NewPipeline /\ UNCHANGED nonDatasetVars
    \/ \E p \in PipelineIds : ForgetPipeline(p) /\ UNCHANGED nonDatasetVars
    \/ \E p \in PipelineIds : SceneAdd(p) /\ UNCHANGED nonDatasetVars
    \/ \E p \in PipelineIds : SceneRemove(p) /\ UNCHANGED nonDatasetVars

NextImport ==
    \/ NewPipeline /\ UNCHANGED nonDatasetVars
    \/ \E p \in PipelineIds : ForgetPipeline(p) /\ UNCHANGED nonDatasetVars
    \/ \E p \in PipelineIds : SceneAdd(p) /\ UNCHANGED nonDatasetVars
    \/ \E p \in PipelineIds : SceneRemove(p) /\ UNCHANGED nonDatasetVars
    \/ \E detected \in BOOLEAN, known \in BOOLEAN, outcome \in Progress,
          status \in StatusTypes, frames \in Progress :
          SceneImport(detected, known, outcome, status, frames) /\ UNCHANGED nonDatasetVars

(***************************************************************************)
(* FileSource.load and the state of the FileSource.                        *)
(***************************************************************************)
Locations == {"a.xyz", "b.dump"}
ImporterTypes == {"XYZImporter", "LAMMPSDumpImporter"}
ImporterAttributes == {"columns", "sort_particles"}
Keywords == ImporterAttributes \cup {"unknown_keyword"}
DefaultParams == [a \in ImporterAttributes |-> 0]

\* **params: keyword arguments in the order the loop visits them
KeywordValues(k) == IF k = "columns" THEN {1, 2} ELSE {1}
Keyword == {<<<<k, v>>>> : k \in Keywords, v \in ParamValues}
KeywordArgs ==
    {<<>>} \cup {s \in Keyword \cup {a \o b : a, b \in Keyword} :
                    /\ \A i \in 1..Len(s) : s[i][2] \in KeywordValues(s[i][1])
                    /\ Len(s) = 2 => s[1][1] # s[2][1]}

NoFileSource == [path |-> "", importer |-> "none", params |-> DefaultParams]
FsIdle == [op |-> "none", raised |-> "none", cause |-> "none",
           pathSame |-> TRUE, paramsSame |-> TRUE]

\* for key in params: hasattr check, then importer.__setattr__(key, params[key])
RECURSIVE ForwardParams(_, _)
ForwardParams(values, kwargs) ==
    IF kwargs = <<>> THEN [values |-> values, raised |-> FALSE]
    ELSE IF Head(kwargs)[1] \notin ImporterAttributes
         THEN [values |-> values, raised |-> TRUE]
         ELSE ForwardParams([values EXCEPT ![Head(kwargs)[1]] = Head(kwargs)[2]],
                            Tail(kwargs))

\* FileSource.set_source(location_list, importer, False)
FileSource_set_source(fs, location, importer, values) ==
    [path |-> location, importer |-> importer, params |-> values]

\* FileSource.load(location, **kwargs) and the state it leaves.
\* valid: location is a string or a sequence; busy: a long operation is not
\* permitted now; detected: the importer type autodetect_format returns.
FileSource_load_state(fs, valid, busy, location, detected, kwargs, set_source, wait_until_ready, status, wait_for_frames_list) ==
    LET reuse == fs.importer # "none" /\ fs.importer = detected
        fwd == ForwardParams(IF reuse THEN fs.params ELSE DefaultParams, kwargs)
        forwarded == IF reuse THEN [fs EXCEPT !.params = fwd.values] ELSE fs
        loaded == FileSource_set_source(fs, location, detected, fwd.values)
        fail(e, after, cause) == [fs |-> after, raised |-> e, cause |-> cause]
    IN IF ~valid THEN fail("TypeError", fs, "location")
       ELSE IF busy THEN fail("RuntimeError", fs, "long operation")
       ELSE IF detected = "none" THEN fail("RuntimeError", fs, "format")
       ELSE IF fwd.raised THEN fail("RuntimeError", forwarded, "keyword")
       ELSE IF set_source = "cancelled" THEN fail("RuntimeError", forwarded, "cancelled")
       ELSE IF wait_until_ready = "cancelled" THEN fail("RuntimeError", loaded, "cancelled")
       ELSE IF status = "Error" THEN fail("RuntimeError", loaded, "load error")
       ELSE IF wait_for_frames_list = "cancelled" THEN fail("RuntimeError", loaded, "cancelled")
       ELSE [fs |-> loaded, raised |-> "none", cause |-> "none"]

Load(valid, busy, location, detected, kwargs, set_source, wait_until_ready, status, wait_for_frames_list) ==
    LET r == FileSource_load_state(fsrc, valid, busy, location, detected, kwargs,
                                   set_source, wait_until_ready, status,
                                   wait_for_frames_list)
    IN /\ fsrc' = r.fs
       /\ fsLast' = [op |-> "load", raised |-> r.raised, cause |-> r.cause,
                     pathSame |-> r.fs.path = fsrc.path,
                     paramsSame |-> /\ r.fs.importer = fsrc.importer
                                    /\ r.fs.params = fsrc.params]

FileSrcInit ==
    /\ fsrc = NoFileSource
    /\ fsLast = FsIdle

NextLoad ==
    \E valid \in BOOLEAN, busy \in BOOLEAN, location \in Locations,
       detected \in ImporterTypes \cup {"none"}, kwargs \in KeywordArgs,
       set_source \in Progress, wait_until_ready \in Progress,
       status \in StatusTypes, wait_for_frames_list \in Progress :
       Load(valid, busy, location, detected, kwargs, set_source, wait_until_ready,
            status, wait_for_frames_list) /\ UNCHANGED nonFileSrcVars

(***************************************************************************)
(* Viewport.render_image and the animation's current frame.                *)
(***************************************************************************)
\* The frame argument, in halves of a frame: -1.5, 0, 0.5, 1.5, 2, 3.
FrameArgs == {-3, 0, 1, 3, 4, 6}
\* int(frame): truncation towards zero.
IntFrame(h) == IF h >= 0 THEN h \div 2 ELSE -((-h) \div 2)
AnimFrames == {IntFrame(h) : h \in FrameArgs}
RenderOutcomes == {"image", "cancelled", "exception"}

AnimIdle == [op |-> "none", raised |-> "none", ret |-> "none", changed |-> FALSE,
             old_frame |-> 0, frame |-> 0, rendered |-> {}]

\* A variant of render_image that restores the frame only after
\* render_scene has returned.
Viewport_render_image_frame_noexcept(a, valid, busy, frame, render_scene) ==
    IF ~valid THEN [anim |-> a, raised |-> "AssertionError", ret |-> "none",
                    changed |-> FALSE, rendered |-> {}]
    ELSE IF busy THEN [anim |-> a, raised |-> "RuntimeError", ret |-> "none",
                       changed |-> FALSE, rendered |-> {}]
    ELSE LET old_frame == a.current_frame
             during == [a EXCEPT !.current_frame = IntFrame(frame)]
             restored == [during EXCEPT !.current_frame = old_frame]
         IN IF render_scene = "exception"
            THEN [anim |-> during, raised |-> "RuntimeError", ret |-> "none",
                  changed |-> TRUE, rendered |-> {during.current_frame}]
            ELSE [anim |-> restored, raised |-> "none",
                  ret |-> IF render_scene = "cancelled" THEN "None" ELSE "fb.image",
                  changed |-> TRUE, rendered |-> {during.current_frame}]

\* Viewport.render_image(size, frame, filename, background, alpha, renderer)
\* valid: the asserts on size, background and renderer hold; busy: a long
\* operation is not permitted now; render_scene: what dataset.render_scene does.
\* The frame buffer is created between the assignment of the frame and the
\* try statement; its creation is taken to succeed.
Viewport_render_image_frame(a, valid, busy, frame, render_scene) ==
    IF ~valid THEN [anim |-> a, raised |-> "AssertionError", ret |-> "none",
                    changed |-> FALSE, rendered |-> {}]
    ELSE IF busy THEN [anim |-> a, raised |-> "RuntimeError", ret |-> "none",
                       changed |-> FALSE, rendered |-> {}]
    ELSE LET old_frame == a.current_frame
             during == [a EXCEPT !.current_frame = IntFrame(frame)]
             \* finally: self.dataset.anim.current_frame = old_frame
             restored == [during EXCEPT !.current_frame = old_frame]
         IN [anim |-> restored,
             raised |-> IF render_scene = "exception" THEN "RuntimeError" ELSE "none",
             ret |-> CASE render_scene = "exception" -> "none"
                       [] render_scene = "cancelled" -> "None"
                       [] OTHER -> "fb.image",
             changed |-> TRUE, rendered |-> {during.current_frame}]

\* ovito.dataset.anim.current_frame = f
SetCurrentFrame(f) ==
    /\ anim' = [anim EXCEPT !.current_frame = f]
    /\ animLast' = AnimIdle

RenderImageFrame(valid, busy, frame, render_scene) ==
    LET r == Viewport_render_image_frame(anim, valid, busy, frame, render_scene)
    IN /\ anim' = r.anim
       /\ animLast' = [op |-> "render_image", raised |-> r.raised, ret |-> r.ret,
                       changed |-> r.changed, old_frame |-> anim.current_frame,
                       frame |-> frame, rendered |-> r.rendered]

AnimInit ==
    /\ anim = [current_frame |-> 0]
    /\ animLast = AnimIdle

NextRender ==
    \/ \E f \in AnimFrames : SetCurrentFrame(f) /\ UNCHANGED nonAnimVars
    \/ \E valid \in BOOLEAN, busy \in BOOLEAN, frame \in FrameArgs,
          render_scene \in RenderOutcomes :
          RenderImageFrame(valid, busy, frame, render_scene) /\ UNCHANGED nonAnimVars

(***************************************************************************)
(* SelectTypeModifier.types: TypeSelectionSet over the two native sets.    *)
(***************************************************************************)
TypeIds == {1, 2, 3}
TypeNames == {"test", "Cu"}
\* An element of the set: an integer or a string.
IntElement(i) == [isstr |-> FALSE, int |-> i, str |-> ""]
StrElement(n) == [isstr |-> TRUE, int |-> 0, str |-> n]
TypeElements == {IntElement(i) : i \in TypeIds} \cup {StrElement(n) : n \in TypeNames}

NoSelection == [ids |-> {}, names |-> {}, reference |-> {}]
SelIdle == [op |-> "none", raised |-> "none", refRaised |-> "none"]

\* TypeSelectionSet.__len__
TypeSelectionSet__len__(m) == Cardinality(m.ids) + Cardinality(m.names)

\* TypeSelectionSet.__iter__: the ids, then the names
TypeSelectionSet__iter__(m) ==
    LET ids == CHOOSE s \in [1..Cardinality(m.ids) -> m.ids] : Range(s) = m.ids
        names == CHOOSE s \in [1..Cardinality(m.names) -> m.names] : Range(s) = m.names
    IN [i \in 1..Cardinality(m.ids) |-> IntElement(ids[i])]
       \o [i \in 1..Cardinality(m.names) |-> StrElement(names[i])]

\* TypeSelectionSet.__contains__
TypeSelectionSet__contains__(m, id) ==
    \/ ~id.isstr /\ id.int \in m.ids
    \/ id.isstr /\ id.str \in m.names

\* A variant of discard that looks in the numeric set only.
TypeSelectionSet_discard_numeric(m, id) ==
    [m EXCEPT !.ids = IF id.isstr THEN @ ELSE @ \ {id.int}]

\* TypeSelectionSet.discard
TypeSelectionSet_discard(m, id) ==
    IF id.isstr THEN [m EXCEPT !.names = @ \ {id.str}]
    ELSE [m EXCEPT !.ids = @ \ {id.int}]

\* TypeSelectionSet.add
TypeSelectionSet_add(m, id) ==
    IF id.isstr THEN [m EXCEPT !.names = @ \cup {id.str}]
    ELSE [m EXCEPT !.ids = @ \cup {id.int}]

\* MutableSet.remove: KeyError when the element is not contained, else discard
TypeSelectionSet_remove(m, id) ==
    IF ~TypeSelectionSet__contains__(m, id) THEN [m |-> m, raised |-> "KeyError"]
    ELSE [m |-> TypeSelectionSet_discard(m, id), raised |-> "none"]

\* SelectTypeModifier.types = id_set
SelectTypeModifier_set_types(m, id_set) ==
    [m EXCEPT !.names = {id.str : id \in {e \in id_set : e.isstr}},
              !.ids = {id.int : id \in {e \in id_set : ~e.isstr}}]

AssignTypes(id_set) ==
    /\ sel' = [SelectTypeModifier_set_types(sel, id_set) EXCEPT !.reference = id_set]
    /\ selLast' = [SelIdle EXCEPT !.op = "assign"]

AddType(id) ==
    /\ sel' = [TypeSelectionSet_add(sel, id) EXCEPT !.reference = @ \cup {id}]
    /\ selLast' = [SelIdle EXCEPT !.op = "add"]

DiscardType(id) ==
    /\ sel' = [TypeSelectionSet_discard(sel, id) EXCEPT !.reference = @ \ {id}]
    /\ selLast' = [SelIdle EXCEPT !.op = "discard"]

RemoveType(id) ==
    LET r == TypeSelectionSet_remove(sel, id)
    IN /\ sel' = [r.m EXCEPT !.reference = @ \ {id}]
       /\ selLast' = [op |-> "remove", raised |-> r.raised,
                      refRaised |-> IF id \in sel.reference THEN "none" ELSE "KeyError"]

TypesInit ==
    /\ sel = NoSelection
    /\ selLast = SelIdle

NextTypes ==
    \/ \E id_set \in SUBSET TypeElements : AssignTypes(id_set) /\ UNCHANGED nonTypesVars
    \/ \E id \in TypeElements : AddType(id) /\ UNCHANGED nonTypesVars
    \/ \E id \in TypeElements : DiscardType(id) /\ UNCHANGED nonTypesVars
    \/ \E id \in TypeElements : RemoveType(id) /\ UNCHANGED nonTypesVars

Init == CowInit /\ ChainInit /\ EvalInit /\ LongInit /\ WriteInit /\ CancelInit /\ AbortInit /\ ContInit /\ FinderInit /\ BondsInit /\ IterInit /\ CtorInit /\ IndexInit /\ DatasetInit /\ FileSrcInit /\ AnimInit /\ TypesInit

SpecCow == Init /\ [][NextCow]_vars
SpecChain == Init /\ [][NextChain]_vars
SpecInsert == Init /\ [][NextInsert]_vars
SpecEval == Init /\ [][NextEval]_vars
SpecEdit == Init /\ [][NextEdit]_vars
SpecLong == Init /\ [][NextLong]_vars
SpecWrite == Init /\ [][NextWrite]_vars
SpecCancel == Init /\ [][NextCancel]_vars
SpecAbort == Init /\ [][NextAbort]_vars
SpecContainer == Init /\ [][NextContainer]_vars
SpecFinder == Init /\ [][NextFinder]_vars
SpecBonds == Init /\ [][NextBonds]_vars
SpecIter == Init /\ [][NextIter]_vars
SpecCtor == Init /\ [][NextCtor]_vars
SpecScenario == Init /\ [][NextScenario]_vars
SpecIndex == Init /\ [][NextIndex]_vars
SpecScene == Init /\ [][NextScene]_vars
SpecImport == Init /\ [][NextImport]_vars
SpecLoad == Init /\ [][NextLoad]_vars
SpecRender == Init /\ [][NextRender]_vars
SpecTypes == Init /\ [][NextTypes]_vars

(***************************************************************************)
(* C1: for collections A and B that hold the same object o, once           *)
(* A.copy_if_needed(o) has returned c, no in-place edit of c changes a     *)
(* value read through an object held by any other collection.              *)
(***************************************************************************)
CowExclusivity ==
    [][(handle # NoHandle /\ handle' = handle /\ value' # value)
        => \A B \in Colls \ {handle.coll} : \A i \in 1..Len(objects[B]) :
              /\ objects'[B] = objects[B]
              /\ value'[objects[B][i]] = value[objects[B][i]]]_vars

\* The clone returned to A has been edited while B still reads the old value of o.
CowExclusivityWitness ==
    /\ handle # NoHandle
    /\ handle.orig # handle.obj
    /\ cowLast.op = "mutate"
    /\ \E B \in Colls \ {handle.coll} :
          /\ handle.orig \in Range(objects[B])
          /\ value[handle.orig] # value[handle.obj]

(***************************************************************************)
(* C2: copy_if_needed(obj) returns obj itself and leaves the object list   *)
(* unchanged when obj's reference count is 1; otherwise it returns a clone *)
(* that occupies obj's former index in the list and whose reference count  *)
(* is exactly 1.                                                           *)
(***************************************************************************)
CopyIfNeededResult ==
    cowLast.op = "copy_if_needed" =>
        IF cowLast.refs = 1
        THEN /\ cowLast.ret = cowLast.obj
             /\ objects[cowLast.coll] = cowLast.pre
        ELSE /\ cowLast.ret # cowLast.obj
             /\ cowLast.ret \notin Range(cowLast.pre)
             /\ objects[cowLast.coll] =
                    ReplaceAt(cowLast.pre, IndexOf(cowLast.pre, cowLast.obj), cowLast.ret)
             /\ value[cowLast.ret] = value[cowLast.obj]
             /\ num_strong_references(objects, cowLast.ret) = 1

\* A shared object in the second slot of the list has been cloned.
CopyIfNeededWitness ==
    /\ cowLast.op = "copy_if_needed"
    /\ cowLast.refs = 2
    /\ IndexOf(cowLast.pre, cowLast.obj) = 2
    /\ cowLast.ret # cowLast.obj

(***************************************************************************)
(* C3: after any sequence of append, __delitem__ and __setitem__ calls,    *)
(* walking the input pointers from data_provider visits exactly the        *)
(* modifiers of a Python list subjected to the same calls, in reverse      *)
(* order, and then reaches the data source; no removed or replaced         *)
(* ModifierApplication stays in the chain.                                 *)
(***************************************************************************)
ChainMatchesList ==
    /\ Reverse(modifierList(pipe)) = Reverse(refList)
    /\ ChainEnd(pipe) = SourcePtr
    /\ Range(modAppList(pipe)) \cap removed = {}
    /\ pipeLast.raised = "none" <=>
          (pipeLast.op \in {"setitem", "delitem"} => PyInRange(pipeLast.pre, pipeLast.index))

\* The first modifier of a chain of two has been replaced.
ChainMatchesListWitness ==
    /\ pipeLast.op = "setitem"
    /\ pipeLast.raised = "none"
    /\ Len(pipeLast.pre) = 2
    /\ PyNorm(pipeLast.pre, pipeLast.index) = 0
    /\ pipeLast.pre[1] # pipeLast.mod
    /\ removed # {}

(***************************************************************************)
(* C4: insert(index, mod) with 0 <= index <= len(modifiers) places mod at  *)
(* position index and keeps the relative order of the other modifiers,     *)
(* for every chain length including the empty chain.                       *)
(***************************************************************************)
InsertPlacesModifier ==
    (pipeLast.op = "insert" /\ pipeLast.index >= 0 /\ pipeLast.index <= Len(pipeLast.pre))
        => /\ pipeLast.raised = "none"
           /\ modifierList(pipe) = InsertAt(pipeLast.pre, pipeLast.index + 1, pipeLast.mod)
           /\ ChainEnd(pipe) = SourcePtr

(***************************************************************************)
(* Parameter changes between two evaluations.                              *)
(***************************************************************************)
Stages(a, b) == [i \in 1..(b - a + 1) |-> a + i - 1]

\* compute has just returned or raised; since an evaluation of the same
\* frame succeeded, one parameter of one modifier has changed and nothing else.
AfterParamChange ==
    /\ evalLast.called
    /\ evalLast.change.kind = "param"
    /\ evalLast.change.frame = evalLast.frame

\* The first stage from k on whose modifier has an invalid parameter, or the
\* last stage of the chain.
LastToRun(k) ==
    LET bad == {i \in k..Len(modAppList(pipe)) : params[modifierList(pipe)[i]] = InvalidParam}
    IN IF bad = {} THEN Len(modAppList(pipe)) ELSE CHOOSE i \in bad : \A j \in bad : i <= j

(***************************************************************************)
(* C5: after a parameter of the modifier at stage k is changed, the next   *)
(* evaluation at the same time re-runs stage k and every later stage and   *)
(* re-runs no stage before k.  (The statement as it is written; it is      *)
(* violated.)                                                              *)
(***************************************************************************)
ParamChangeRerunsAllLater ==
    AfterParamChange => evalLast.ran = Stages(evalLast.change.pos, evalLast.len)

(***************************************************************************)
(* C5, amended: after an evaluation at a time succeeded and a parameter of *)
(* a modifier whose first stage in the chain is k is changed, the next     *)
(* evaluation at the same time re-runs no stage before k, re-runs stage k, *)
(* and re-runs the later stages in order up to and including the first one *)
(* that ends with an Error status, all of them when none does.             *)
(***************************************************************************)
ParamChangeReruns ==
    AfterParamChange =>
        evalLast.ran = Stages(evalLast.change.first, LastToRun(evalLast.change.first))

\* The parameter of stage 2 of three changed: stage 1 is not re-run, stages 2
\* and 3 are.
ParamChangeRerunsWitness ==
    /\ AfterParamChange
    /\ evalLast.change.first = 2
    /\ evalLast.len = 3
    /\ evalLast.raised = "none"
    /\ evalLast.ran = <<2, 3>>

(***************************************************************************)
(* C6: after an edit of the modifier list that changes position i (append, *)
(* insert, delete, assignment), the caches at position i and at every      *)
(* later position are invalid: no later evaluation returns a result that    *)
(* was cached before the edit.                                              *)
(***************************************************************************)
EditInvalidatesCaches ==
    evalLast.called => (~evalLast.fromStale /\ evalLast.fresh)

\* An evaluation after an edit that started from the cache of a stage before
\* the edited position and ran again a stage whose cache predated the edit.
EditInvalidatesCachesWitness ==
    /\ evalLast.called
    /\ evalLast.change.kind = "edit"
    /\ evalLast.start > 0
    /\ evalLast.refreshed

ErrorShortCircuits ==
    (evalLast.called /\ evalLast.status = "Error") =>
        LET j == evalLast.ran[Len(evalLast.ran)]
        IN /\ params[modifierList(pipe)[j]] = InvalidParam
           /\ \A i \in Range(evalLast.ran) : i <= j
           /\ \A i \in Range(evalLast.ran) :
                 i < j => params[modifierList(pipe)[i]] # InvalidParam
           /\ evalLast.raised = "RuntimeError"
           /\ evalLast.message = modAppList(pipe)[j]
           /\ evalLast.ret = <<>>

\* Stage 2 of three failed after stage 1 ran; stage 3 did not run.
ErrorShortCircuitsWitness ==
    /\ evalLast.called
    /\ evalLast.status = "Error"
    /\ evalLast.len = 3
    /\ evalLast.ran = <<1, 2>>
    /\ evalLast.raised = "RuntimeError"

(***************************************************************************)
(* C9: a long-running operation (import_file, FileSource.load,             *)
(* export_file, render_image, render_anim) requested while another         *)
(* long-running operation or a pipeline evaluation is in progress is       *)
(* rejected with an error, so two of them are never in progress at the     *)
(* same time.                                                              *)
(***************************************************************************)
LongOperationsExclusive ==
    /\ \A i \in 1..Len(stack) : stack[i] \in LongOps => i = 1
    /\ (longLast.event = "call" /\ longLast.op \in LongOps /\ longLast.depth > 0)
          => longLast.raised = "RuntimeError"

\* export_file was requested by a script function that runs in an evaluation
\* that runs in render_image, and was rejected.
LongOperationsExclusiveWitness ==
    /\ stack = <<"render_image", "compute">>
    /\ longLast = [event |-> "call", op |-> "export_file", raised |-> "RuntimeError",
                   depth |-> 2]

(***************************************************************************)
(* C10: every in-place edit of the values of a Property or SimulationCell  *)
(* happens after make_writable and before the matching make_readonly, and  *)
(* that make_readonly is followed by notify_object_changed on every exit   *)
(* path, so that no edit is left without notification once the object is   *)
(* read-only again.  (The code violates it.)                               *)
(***************************************************************************)
WriteSections ==
    /\ writeLast.edited => writeLast.inSection
    /\ ~prop.writable => ~prop.dirty

(***************************************************************************)
(* C11: a cancelled operation is reported to the caller through a distinct *)
(* 'cancelled' outcome and not through an exception.  (The code violates   *)
(* it: it raises RuntimeError, as it does for an error.)                   *)
(***************************************************************************)
CancelledIsNotRaised ==
    cancelLast.cancelled => cancelLast.raised = "none"

(***************************************************************************)
(* C12: if an evaluation is aborted by a cancellation signal, the          *)
(* pipeline's cache afterwards holds either the previous valid entry or no *)
(* replacement at all, never a partially updated entry: every entry is     *)
(* empty or the complete result of its stage for the frame it is stored    *)
(* for.                                                                    *)
(***************************************************************************)
WholeEntry(i) ==
    LET e == pipe.cache[modAppList(pipe)[i]]
    IN \/ e = NoEntry
       \/ /\ e.time \in Frames
          /\ e.result = SubSeq(evaluate_pipeline_nocache(pipe, params, e.time).data, 1, i + 1)

MutableRequestOnUnsafeRaises ==
    (contLast.op = "getitem" /\ contLast.flag /\ ~contLast.safe)
        => /\ contLast.raised # "none"
           /\ contLast.ret = 0
           /\ contLast.unchanged

MutableRequestOnUnsafeWitness ==
    /\ cont.kind = "PropertyContainer"
    /\ contLast.op = "getitem" /\ contLast.flag /\ ~contLast.safe
    /\ contLast.stored # 0
    /\ cont.properties[contLast.stored].shared
    /\ contLast.raised = "ValueError"

\* C14: find, expect and a key without trailing underscore return the object
\* that the list holds, make no copy and leave the list of objects as it was.
ImmutableLookup ==
    \/ contLast.op \in {"find", "expect"}
    \/ contLast.op = "getitem" /\ ~contLast.flag

LookupReturnsStored ==
    ImmutableLookup
        => /\ contLast.unchanged
           /\ ~contLast.copied
           /\ contLast.raised = "none" => contLast.ret = contLast.stored
           /\ contLast.raised # "none" => contLast.ret = 0 /\ contLast.stored = 0

LookupReturnsStoredWitness ==
    /\ cont.kind = "DataObjectsDict"
    /\ contLast.op = "getitem" /\ ~contLast.flag
    /\ contLast.raised = "none"
    /\ contLast.ret = 2
    /\ cont.properties[2].shared
    /\ ~cont.safe

\* C15: on a particle or bond container every property has the same number
\* of elements after every create_property call, whether it succeeded or
\* raised.
IsView == cont.kind \in {"ParticlesView", "BondsView"}

SameElementCount ==
    IsView => \A i, j \in 1..Len(cont.properties) :
                  Len(cont.properties[i].data) = Len(cont.properties[j].data)

SameElementCountWitness ==
    /\ IsView
    /\ contLast.op = "create_property" /\ contLast.raised = "none"
    /\ Len(cont.properties) = Cardinality(PropertyTypes)
    /\ \A j \in 1..Len(cont.properties) : Len(cont.properties[j].data) = MaxElements
    /\ \E j \in 1..Len(cont.properties) : cont.properties[j].data # Zeros(MaxElements)

\* C16: create_property with data whose length is not the element count of
\* the container raises an error and leaves the properties of the container
\* and their values as they were.
LengthMismatchRaises ==
    (contLast.op = "create_property" /\ contLast.mismatch)
        => /\ contLast.raised # "none"
           /\ contLast.ret = 0
           /\ contLast.unchanged

LengthMismatchWitness ==
    /\ cont.kind = "ParticlesView"
    /\ contLast.op = "create_property" /\ contLast.mismatch
    /\ contLast.raised = "ValueError"
    /\ contLast.stored # 0
    /\ Len(cont.properties) >= 2

\* C17: PropertyContainer.create_property with a name that the container
\* does not have yet and data whose length is the element count adds exactly
\* one property with that name and returns it (calls that name no valid
\* property, or give dtype or components for a standard one, are set aside).
CreatePropertyAdds ==
    (/\ cont.kind = "PropertyContainer"
     /\ contLast.op = "create_property"
     /\ contLast.stored = 0
     /\ contLast.match
     /\ contLast.raised \notin {"TypeError", "ValueError"})
        => /\ contLast.raised = "none"
           /\ contLast.added = 1
           /\ contLast.ret = Len(cont.properties)

\* The images of the particles within the cutoff of particle i, told from the
\* geometry alone: particle j shifted by s cells (s = 0 when the cell is not
\* periodic), the central particle in its own place left out.
FarthestShift == (CHOOSE c \in Cutoffs : \A d \in Cutoffs : d <= c) + 1

ImagesWithinCutoff(f, i) ==
    {Neighbor(f, i, j, s) : j \in 0..(Len(f.pos) - 1), s \in -FarthestShift..FarthestShift}
        \cap {n \in [index : 0..(Len(f.pos) - 1), delta : Int, distance : Int,
                      distance_squared : Int, pbc_shift : Int] :
                 /\ n.pbc_shift = 0 \/ f.pbc
                 /\ n.distance <= f.cutoff
                 /\ ~(n.index = i /\ n.pbc_shift = 0)}

CutoffFindRuns == finder.kind = "cutoff" /\ query.center >= 0 /\ query.raised = "none"

\* C18: CutoffNeighborFinder.find(i) yields every image of every particle
\* within the cutoff of particle i, each once (no two records agree in
\* index, delta and pbc_shift), and no record farther away than the cutoff.
CutoffFindComplete ==
    CutoffFindRuns
        => /\ \A p \in 1..Len(found) : found[p].distance <= finder.cutoff
           /\ \A p, q \in 1..Len(found) :
                 (p # q /\ found[p].index = found[q].index)
                    => <<found[p].delta, found[p].pbc_shift>>
                          # <<found[q].delta, found[q].pbc_shift>>
           /\ query.pending = <<>>
                 => {found[p] : p \in 1..Len(found)}
                       = ImagesWithinCutoff(finder, query.center)

CutoffFindCompleteWitness ==
    /\ CutoffFindRuns
    /\ query.pending = <<>>
    /\ finder.pbc /\ finder.cutoff > finder.cell
    /\ Len(finder.pos) = MaxParticles
    /\ \E p, q \in 1..Len(found) :
          /\ found[p].index = query.center /\ found[p].pbc_shift >= 2
          /\ found[q].index # query.center /\ found[q].pbc_shift = -1

NearestFindRuns == finder.kind = "nearest" /\ query.center >= 0 /\ query.raised = "none"

\* C19: NearestNeighborFinder(N).find(i) yields at most N records, in
\* non-decreasing order of distance, and never the image of particle i at
\* distance zero.
NearestFindOrdered ==
    NearestFindRuns
        => /\ Len(found) <= finder.N
           /\ \A p, q \in 1..Len(found) : p < q => found[p].distance <= found[q].distance
           /\ \A p \in 1..Len(found) :
                 ~(found[p].index = query.center /\ found[p].distance = 0)

NearestFindOrderedWitness ==
    /\ NearestFindRuns
    /\ query.pending = <<>>
    /\ finder.pbc
    /\ Len(found) = MaxNeighbors
    /\ \E p, q \in 1..Len(found) :
          /\ found[p].index = query.center /\ found[p].distance > 0
          /\ found[q].index # query.center

SweepDone ==
    /\ enumerator.built
    /\ sweep.pending = <<>>
    /\ sweep.particle + 1 \notin BondParticles
    /\ sweep.particle \in BondParticles

Visits(b) == {k \in 1..Len(collected) : collected[k].bond = b}

\* C20: the bond indices that bonds_of_particle yields over all particles are
\* every index 0..M-1 exactly twice, once for each end of the bond (twice
\* for the same particle when both ends are that particle), and every index
\* yielded for a particle is a bond with that particle at one end.
BondsVisitedTwice ==
    /\ \A k \in 1..Len(collected) :
          /\ collected[k].bond \in 0..(Len(enumerator.topology) - 1)
          /\ collected[k].particle \in
                {enumerator.topology[collected[k].bond + 1][1],
                 enumerator.topology[collected[k].bond + 1][2]}
    /\ SweepDone
          => \A b \in 0..(Len(enumerator.topology) - 1) :
                /\ Cardinality(Visits(b)) = 2
                /\ \A e \in 1..2 :
                      \E k \in Visits(b) :
                         collected[k].particle = enumerator.topology[b + 1][e]

BondsVisitedTwiceWitness ==
    /\ SweepDone
    /\ Len(enumerator.topology) = MaxBonds
    /\ \E a, b \in 1..MaxBonds :
          /\ a # b
          /\ enumerator.topology[a][1] = enumerator.topology[a][2]
          /\ enumerator.topology[b][1] # enumerator.topology[b][2]
          /\ \E d \in 1..MaxBonds :
                /\ d # b
                /\ enumerator.topology[d] = <<enumerator.topology[b][2], enumerator.topology[b][1]>>

\* C21: find(index) with index < 0 or index >= particle count raises the
\* range error at the call, so that the script never holds a sequence for
\* such an index that it has not begun to iterate.
IndexInRange(f, index) == index >= 0 /\ index < Len(f.pos)

FindRaisesAtCall ==
    \A g \in Generators :
        iter.gen[g].state = "created" => IndexInRange(iter.finder, iter.gen[g].index)


\* What a generator of the cutoff finder yields when the script iterates it
\* alone, from the call to the end.
YieldedAlone(g) == CutoffNeighborFinder_find(iter.finder, iter.gen[g].index).pending

Min(a, b) == IF a < b THEN a ELSE b

\* C25: two sequences that separate find calls on one CutoffNeighborFinder
\* have returned can be iterated in any interleaving; each yields, record
\* after record, what it yields when it is iterated alone.
InterleavedFindsIndependent ==
    \A g \in Generators :
        (/\ iter.finder.kind = "cutoff"
         /\ iter.gen[g].state \in {"suspended", "StopIteration"})
            => /\ Len(iter.gen[g].out) = Min(iter.gen[g].resumed, Len(YieldedAlone(g)))
               /\ iter.gen[g].out = SubSeq(YieldedAlone(g), 1, Len(iter.gen[g].out))

InterleavedFindsWitness ==
    /\ iter.finder.kind = "cutoff"
    /\ iter.gen[1].index # iter.gen[2].index
    /\ iter.gen[1].state = "suspended" /\ Len(iter.gen[1].out) = 2
    /\ iter.gen[2].state = "suspended" /\ Len(iter.gen[2].out) = 2
    /\ iter.gen[1].out # iter.gen[2].out

\* C22: NearestNeighborFinder(N, data) with N <= 0 or N > 30 raises an error,
\* and no finder is initialised or prepared with such an N.
BadNeighborCountRejected ==
    (ctor.N <= 0 \/ ctor.N > MaxSupportedNeighbors)
        => /\ ctor.raised # "none"
           /\ ctor.initialised = {}
           /\ ctor.prepared = {}

\* The cell of side 10, periodic, with particles at 0.1 and 9.9 on the x
\* axis, a finder with cutoff 0.5, and find(0) iterated to its end.
ScenarioQueried ==
    /\ finder.kind = "cutoff" /\ finder.cell = 100 /\ finder.pbc
    /\ finder.pos = <<1, 99>> /\ finder.cutoff = 5
    /\ query.center = 0 /\ query.raised = "none" /\ query.pending = <<>>

\* C23: in that cell find(0) yields particle 1 at distance 0.2 with a
\* pbc_shift of one cell along x (the minimum image vector of the cell), and
\* no record at the distance 9.8 of the two positions without periodicity.
ScenarioMinimumImage ==
    ScenarioQueried
        => /\ \E p \in 1..Len(found) :
                 /\ found[p].index = 1
                 /\ found[p].distance = 2
                 /\ Abs(found[p].pbc_shift) = 1
                 /\ found[p].delta = SimulationCell_delta_vector(100, TRUE, 1, 99).delta
           /\ \A p \in 1..Len(found) : found[p].distance # 98

ScenarioMinimumImageWitness ==
    /\ ScenarioQueried
    /\ Len(found) = 1
    /\ found[1].index = 1 /\ found[1].delta = -2

\* The index of the last call is a slice, not an integer, or outside the
\* list: outside 0..len-1 (counted from the end when negative) for
\* __setitem__ and __delitem__, outside 0..len for insert.
BadIndex ==
    \/ indexLast.arg.kind # "int"
    \/ LET i == IF indexLast.arg.value < 0 THEN indexLast.arg.value + indexLast.len
                ELSE indexLast.arg.value
       IN \/ i < 0
          \/ i >= indexLast.len /\ indexLast.op \in {"setitem", "delitem"}
          \/ i > indexLast.len /\ indexLast.op = "insert"

\* C24: __setitem__, __delitem__ and insert with an index out of range, a
\* slice or an index that is no integer raise an exception and leave
\* data_provider and the input of every ModifierApplication as they were.
BadIndexLeavesChain ==
    (indexLast.op # "none" /\ BadIndex)
        => indexLast.raised # "none" /\ indexLast.unchanged

BadIndexLeavesChainWitness ==
    /\ indexLast.op = "insert"
    /\ indexLast.arg.kind = "int" /\ indexLast.arg.value > indexLast.len
    /\ indexLast.len >= 1
    /\ indexLast.raised = "IndexError"
    /\ Len(modAppList(pipe)) = indexLast.len

\* C26: after import_file has returned or raised, the scene's list of
\* pipelines is what it was before the call: the new pipeline has been taken
\* out of the scene when the call returns it, and deleted when loading failed.
ImportLeavesScene ==
    dsLast.op = "import_file"
        => /\ ds.pipelines = dsLast.pre
           /\ dsLast.raised = "none"
                 => /\ dsLast.ret = dsLast.created
                    /\ dsLast.ret \in ds.exists \ Range(ds.pipelines)
           /\ (dsLast.raised # "none" /\ dsLast.created # NoPipeline)
                 => dsLast.created \notin ds.exists

ImportLeavesSceneWitness ==
    /\ dsLast.op = "import_file"
    /\ dsLast.raised = "none"
    /\ Len(ds.pipelines) >= 1
    /\ ds.selected = NoPipeline
    /\ dsLast.ret \in ds.exists

\* C27: after any sequence of add_to_scene and remove_from_scene calls the
\* selected pipeline is None or a pipeline in the scene's list, and no
\* pipeline is in the list more than once.
SceneWellFormed ==
    /\ ds.selected = NoPipeline \/ ds.selected \in Range(ds.pipelines)
    /\ \A i, j \in 1..Len(ds.pipelines) : i # j => ds.pipelines[i] # ds.pipelines[j]

SceneWellFormedWitness ==
    /\ dsLast.op = "remove_from_scene"
    /\ Len(dsLast.pre) = MaxPipelines + 1
    /\ Len(ds.pipelines) = MaxPipelines
    /\ ds.selected # NoPipeline
    /\ ds.selected = ds.pipelines[1]

TypesMatchReference ==
    /\ \A id \in TypeElements : TypeSelectionSet__contains__(sel, id) <=> id \in sel.reference
    /\ Range(TypeSelectionSet__iter__(sel)) = sel.reference
    /\ Len(TypeSelectionSet__iter__(sel)) = Cardinality(sel.reference)
    /\ TypeSelectionSet__len__(sel) = Cardinality(sel.reference)
    /\ selLast.raised = selLast.refRaised

TypesMatchReferenceWitness ==
    /\ selLast.op = "remove"
    /\ selLast.raised = "none"
    /\ \E id \in sel.reference : id.isstr
    /\ \E id \in TypeElements \ sel.reference : id.isstr
    /\ \E id \in sel.reference : ~id.isstr
    /\ TypeSelectionSet__len__(sel) = 3

====
